---- MODULE Spec2Model ----
(***************************************************************************)
(* Dual camera capture/display pipeline (dual_camera_capture_display.cpp). *)
(* The main loop (preview: dequeue, composite, requeue; triggered capture: *)
(* dequeue, encode, requeue, clear flag, advance counter) runs             *)
(* concurrently with the key listener thread, which sets photo_flag.       *)
(* The V4L2 driver is modelled by the queue of driver-owned buffers of     *)
(* each camera: VIDIOC_DQBUF hands the oldest one to the application,      *)
(* VIDIOC_QBUF gives one back, and either call may fail.                   *)
(***************************************************************************)
EXTENDS Integers, Sequences, FiniteSets, TLC

\* ---------------------------------------------------------------- bounds
\* number of press events (EV_KEY, value 1) that arrive in one run; events of
\* every other kind arrive without limit
MaxPresses == 2
\* number of calls (VIDIOC_DQBUF, VIDIOC_QBUF, malloc, fopen) that fail in one run
MaxFails == 2
\* display surfaces up to MaxDim rows and 2 * MaxDim + 1 columns are mapped at
\* every pixel; larger ones at sampled pixels
MaxDim == 3
\* number of capture events completed before the one whose encoder calls are
\* followed statement by statement
MaxShots == 2
\* number of steps in which the sample values of one byte divide 0 .. 255
MaxLevels == 16
MaxEntries == 3
MaxTriggers == 2

\* ------------------------------------------------------ program constants
\* req.count = 2 / for (i = 0; i < 2; ++i)
NumBufs == 2
\* the two camera bindings: 1 = CAM_LEFT (vfd1, buf1), 2 = CAM_RIGHT (vfd2, buf2)
Cams == {1, 2}
BufIdx == 0 .. (NumBufs - 1)
\* input_event.type values: EV_KEY and one representative of every other type
EvTypes == {"EV_KEY", "EV_REL"}
\* input_event.value: 0 released, 1 pressed, 2 repeat
EvValues == {0, 1, 2}
\* the value of an event is looked at only when its type is EV_KEY, so the
\* other types are represented with the value 1 alone
Events == {e \in [type : EvTypes, value : EvValues] : e.type = "EV_KEY" \/ e.value = 1}
\* the content of ev while the listener is not handling an event
NoEvent == [type |-> "EV_REL", value |-> 1]
\* a pane of the display surface nothing has been composited into yet
Blank == -1

VARIABLES
    pc,          \* position of the main loop
    lpc,         \* position of the listener thread
    photo_flag,  \* volatile int photo_flag
    photo_idx,   \* int photo_idx
    drvq,        \* per camera: the driver-owned (queued) buffer indices, oldest first
    b,           \* b1.index, b2.index   (step-1 v4l2_buffer structs)
    cap,         \* cap1.index, cap2.index (capture v4l2_buffer structs)
    ev,          \* struct input_event ev of the listener
    fb,          \* per pane of the display surface: the camera whose frame it shows
    files,       \* still images on disk: <<camera, index>>
    failsLeft,   \* number of call failures that may still happen
    iterLog,     \* what the main loop did in the current iteration, in order
    presses,     \* number of press events the listener has processed
    latePresses, \* ... of which processed while the flag was already set
    handlingPresses, \* ... of which processed while the main loop was in the trigger branch
    sets,        \* number of 0 -> 1 changes of photo_flag
    clears,      \* number of times the main loop executed photo_flag = 0
    captures,    \* number of trigger branches entered
    pressedSinceClear, \* a press was processed after the last clear
    held,        \* per camera: buffers dequeued by the application and not requeued
    diag,        \* what the encoder printed: <<"fopen", camera>> for perror("fopen")
    rgbLive,     \* scratch RGB buffers of the encoder that are allocated and not freed
    spc,         \* position of main() in the startup code
    dev,         \* what startup has established: display surface and camera bindings
    cm,          \* one coordinate mapping of draw_on_lcd: its inputs and its result
    enc,         \* the two yuyv_to_jpeg calls of one capture event, statement by statement
    lcd,         \* the two draw_on_lcd calls of one preview update: surface memory, row by row
    px,          \* one colour conversion of draw_on_lcd: Y, U, V and the pixel written
    rgb,         \* the conversion loop of yuyv_to_jpeg: the frame and the rgb buffer
    dir,         \* clear_jpg_files on one folder: the directory and the position in the function
    coil,        \* coil_trigger_capture: position of main(), count, pins, saved images
    http,        \* one http_get_snapshot_save call: the response, the buffers, the file
    fix,         \* Fixture_Tester: measurement state, ticks, key, relay pins
    filt         \* Fixture_Tester: one moving-average filter (buffer, idx, sum)

vars == <<pc, lpc, photo_flag, photo_idx, drvq, b, cap, ev, fb, files,
          failsLeft, iterLog, presses, latePresses, handlingPresses, sets,
          clears, captures, pressedSinceClear, held, diag, rgbLive, spc, dev, cm,
          enc, lcd, px, rgb, dir, coil, http, fix, filt>>

mainVars == <<pc, photo_idx, drvq, b, cap, fb, files, failsLeft, iterLog>>
histKeys == <<presses, latePresses, handlingPresses, sets, pressedSinceClear>>
\* resources of the main loop that most statements leave alone
resVars == <<held, diag, rgbLive>>
\* what the main loop and the listener never touch
outerVars == <<spc, dev, cm, enc, lcd, px, rgb, dir, coil, http, fix, filt>>

\* ---------------------------------------------------------------- helpers
Range(s) == {s[i] : i \in 1 .. Len(s)}

\* a buffer is queued (driver-owned) or dequeued (application-owned)
BufState(c, i) == IF i \in Range(drvq[c]) THEN "queued" ELSE "dequeued"
Dequeued(c) == {i \in BufIdx : BufState(c, i) = "dequeued"}

\* the positions of the main loop inside the trigger-handling branch,
\* from after the flag was read as set up to and including the clear
HandlingPcs == {"cap_dq1", "cap_dq2", "enc1", "enc2", "cap_q1", "cap_q2", "clear"}
TriggerPcs == HandlingPcs \cup {"inc"}

\* ------------------------------------------------------------ the driver
\* ioctl(vfd, VIDIOC_DQBUF, &buf): the results the call can return.  On
\* success the oldest driver-owned buffer passes to the application and its
\* index is stored in buf.index; on failure buf is left as it was (old).
\* With no driver-owned buffer the (blocking) call cannot succeed.
DqbufResults(c, old) ==
    (IF drvq[c] # <<>>
       THEN {[ok |-> TRUE, index |-> Head(drvq[c]), q |-> Tail(drvq[c]), fails |-> failsLeft]}
       ELSE {})
    \cup
    (IF failsLeft > 0
       THEN {[ok |-> FALSE, index |-> old, q |-> drvq[c], fails |-> failsLeft - 1]}
       ELSE {})

\* ioctl(vfd, VIDIOC_QBUF, &buf) with buf.index = i: a buffer the driver
\* already owns is rejected (EINVAL, nothing changes); an application-owned
\* buffer is appended to the driver's queue unless the call fails.
QbufResults(c, i) ==
    IF i \in Range(drvq[c])
      THEN {[ok |-> FALSE, q |-> drvq[c], fails |-> failsLeft]}
      ELSE {[ok |-> TRUE, q |-> Append(drvq[c], i), fails |-> failsLeft]}
           \cup
           (IF failsLeft > 0
              THEN {[ok |-> FALSE, q |-> drvq[c], fails |-> failsLeft - 1]}
              ELSE {})

\* ------------------------------------------------- what startup establishes
\* a camera binding: the device handle, the negotiated format, the number of
\* buffers the driver granted, the buffers mapped, the stream
CamClosed == [fd |-> FALSE, fmt |-> FALSE, granted |-> 0, mapped |-> {}, streaming |-> FALSE]
CamReady == [fd |-> TRUE, fmt |-> TRUE, granted |-> NumBufs, mapped |-> BufIdx, streaming |-> TRUE]
\* before main() has done anything / when main() enters the loop
DevNone == [fb |-> "closed", cam |-> [c \in Cams |-> CamClosed], thread |-> FALSE]
DevReady == [fb |-> "mapped", cam |-> [c \in Cams |-> CamReady], thread |-> TRUE]
\* the position in the startup code: the statement, the camera being set up
\* and the loop variable i of init_camera
SpcLoop == [at |-> "loop", c |-> 2, i |-> NumBufs]
\* no coordinate mapping computed
\* no yuyv_to_jpeg call is being followed
EncIdle == [at |-> "idle", c |-> 0, res |-> [c \in Cams |-> "none"], calls |-> [c \in Cams |-> 0]]
\* no draw_on_lcd call, conversion or purge is being followed
LcdIdle == [at |-> "idle"]
PxIdle == [at |-> "idle"]
RgbIdle == [at |-> "idle"]
DirIdle == [at |-> "idle"]
\* the other two programs of the repository are not being followed
CoilIdle == [at |-> "idle"]
HttpIdle == [at |-> "idle"]
FixIdle == [at |-> "idle"]
FiltIdle == [at |-> "idle"]
sideVars == <<coil, http, fix, filt>>
SideIdle == coil = CoilIdle /\ http = HttpIdle /\ fix = FixIdle /\ filt = FiltIdle
PureIdle ==
    /\ lcd = LcdIdle /\ px = PxIdle /\ rgb = RgbIdle /\ dir = DirIdle
    /\ SideIdle
CmIdle == [at |-> "idle", fb_w |-> 0, fb_h |-> 0, x |-> 0, y |-> 0, src_x |-> 0, src_y |-> 0]

\* variant: three buffers of each camera are queued at startup
Init_ThreeBuffers ==
    /\ pc = "dq1"
    /\ lpc = "open"
    /\ photo_flag = 0
    /\ photo_idx = 0
    /\ drvq = [c \in Cams |-> <<0, 1, 2>>]
    /\ b = [c \in Cams |-> 0]
    /\ cap = [c \in Cams |-> 0]
    /\ ev = NoEvent
    /\ fb = [c \in Cams |-> Blank]
    /\ files = {}
    /\ failsLeft = MaxFails
    /\ iterLog = <<>>
    /\ presses = 0
    /\ latePresses = 0
    /\ handlingPresses = 0
    /\ sets = 0
    /\ clears = 0
    /\ captures = 0
    /\ pressedSinceClear = FALSE
    /\ held = [c \in Cams |-> 0]
    /\ diag = {}
    /\ rgbLive = 0
    /\ spc = SpcLoop
    /\ dev = DevReady
    /\ cm = CmIdle
    /\ enc = EncIdle
    /\ PureIdle

\* --------------------------------------------------------------- Init
\* The state after init_camera of both cameras (both buffers of each camera
\* queued, in index order, stream on), pthread_create and int photo_idx = 0.
Init ==
    /\ pc = "dq1"
    /\ lpc = "open"
    /\ photo_flag = 0
    /\ photo_idx = 0
    /\ drvq = [c \in Cams |-> <<0, 1>>]
    /\ b = [c \in Cams |-> 0]
    /\ cap = [c \in Cams |-> 0]
    /\ ev = NoEvent
    /\ fb = [c \in Cams |-> Blank]
    /\ files = {}
    /\ failsLeft = MaxFails
    /\ iterLog = <<>>
    /\ presses = 0
    /\ latePresses = 0
    /\ handlingPresses = 0
    /\ sets = 0
    /\ clears = 0
    /\ captures = 0
    /\ pressedSinceClear = FALSE
    /\ held = [c \in Cams |-> 0]
    /\ diag = {}
    /\ rgbLive = 0
    /\ spc = SpcLoop
    /\ dev = DevReady
    /\ cm = CmIdle
    /\ enc = EncIdle
    /\ PureIdle

\* ------------------------------------------------------- main loop, step 1
\* if (ioctl(vfd1, VIDIOC_DQBUF, &b1) == 0 && ioctl(vfd2, VIDIOC_DQBUF, &b2) == 0):
\* where the loop goes after the left and after the right dequeue
AfterDq1(ok) == IF ok THEN "dq2" ELSE "check"
\* variant: the result of the right dequeue is not tested
AfterDq2_IgnoreFail(ok) == "draw1"
AfterDq2(ok) == IF ok THEN "draw1" ELSE "check"

\* variant: the flag is tested before the preview buffers are requeued
Succ_TestBeforeRequeue(p) ==
    CASE p = "draw1"   -> "draw2"
      [] p = "draw2"   -> "check"
      [] p = "q1"      -> "q2"
      [] p = "q2"      -> "check"
      [] p = "cap_dq1" -> "cap_dq2"
      [] p = "cap_dq2" -> "enc1"
      [] p = "enc1"    -> "enc2"
      [] p = "enc2"    -> "cap_q1"
      [] p = "cap_q1"  -> "cap_q2"
      [] p = "cap_q2"  -> "clear"
      [] p = "clear"   -> "inc"
      [] p = "inc"     -> "sleep"
      [] OTHER         -> p

\* variant: the flag is cleared at the start of the capture, before the encodes
Succ_ClearFirst(p) ==
    CASE p = "draw1"   -> "draw2"
      [] p = "draw2"   -> "q1"
      [] p = "q1"      -> "q2"
      [] p = "q2"      -> "check"
      [] p = "cap_dq1" -> "cap_dq2"
      [] p = "cap_dq2" -> "clear"
      [] p = "enc1"    -> "enc2"
      [] p = "enc2"    -> "cap_q1"
      [] p = "cap_q1"  -> "cap_q2"
      [] p = "cap_q2"  -> "inc"
      [] p = "clear"   -> "enc1"
      [] p = "inc"     -> "sleep"
      [] OTHER         -> p

\* the straight-line code of one iteration: the statement executed after p
Succ(p) ==
    CASE p = "draw1"   -> "draw2"
      [] p = "draw2"   -> "q1"
      [] p = "q1"      -> "q2"
      [] p = "q2"      -> "check"
      [] p = "cap_dq1" -> "cap_dq2"
      [] p = "cap_dq2" -> "enc1"
      [] p = "enc1"    -> "enc2"
      [] p = "enc2"    -> "cap_q1"
      [] p = "cap_q1"  -> "cap_q2"
      [] p = "cap_q2"  -> "clear"
      [] p = "clear"   -> "inc"
      [] p = "inc"     -> "sleep"
      [] OTHER         -> p

\* variant: the branch is taken whatever the flag
AfterCheck_Always(flag) == "cap_dq1"
\* variant: the branch is never taken
AfterCheck_Never(flag) == "sleep"
\* variant: the test is inverted
AfterCheck_Inverted(flag) == IF flag = 0 THEN "cap_dq1" ELSE "sleep"

\* if (photo_flag): where the loop goes after testing the flag
AfterCheck(flag) == IF flag # 0 THEN "cap_dq1" ELSE "sleep"

Log(e) == iterLog' = Append(iterLog, e)

\* ioctl(vfd1, VIDIOC_DQBUF, &b1)
Dq1 ==
    /\ pc = "dq1"
    /\ \E r \in DqbufResults(1, b[1]) :
         /\ drvq' = [drvq EXCEPT ![1] = r.q]
         /\ b' = [b EXCEPT ![1] = r.index]
         /\ failsLeft' = r.fails
         /\ held' = [held EXCEPT ![1] = @ + (IF r.ok THEN 1 ELSE 0)]
         /\ pc' = AfterDq1(r.ok)
         /\ Log(IF r.ok THEN "dq1_ok" ELSE "dq1_fail")
    /\ UNCHANGED <<lpc, photo_flag, photo_idx, cap, ev, fb, files,
                   clears, captures>>
    /\ UNCHANGED histKeys
    /\ UNCHANGED <<diag, rgbLive>>
    /\ UNCHANGED outerVars

\* ioctl(vfd2, VIDIOC_DQBUF, &b2), evaluated only when the left dequeue succeeded
Dq2 ==
    /\ pc = "dq2"
    /\ \E r \in DqbufResults(2, b[2]) :
         /\ drvq' = [drvq EXCEPT ![2] = r.q]
         /\ b' = [b EXCEPT ![2] = r.index]
         /\ failsLeft' = r.fails
         /\ held' = [held EXCEPT ![2] = @ + (IF r.ok THEN 1 ELSE 0)]
         /\ pc' = AfterDq2(r.ok)
         /\ Log(IF r.ok THEN "dq2_ok" ELSE "dq2_fail")
    /\ UNCHANGED <<lpc, photo_flag, photo_idx, cap, ev, fb, files,
                   clears, captures>>
    /\ UNCHANGED histKeys
    /\ UNCHANGED <<diag, rgbLive>>
    /\ UNCHANGED outerVars

\* draw_on_lcd(fb_mem, ..., bufN[bN.index].start, x_offset): the pane at that
\* offset now shows a frame of camera c
Draw(c, p) ==
    /\ pc = p
    /\ fb' = [fb EXCEPT ![c] = c]
    /\ pc' = Succ(p)
    /\ Log(IF c = 1 THEN "draw1" ELSE "draw2")
    /\ UNCHANGED <<lpc, photo_flag, photo_idx, drvq, b, cap, ev, files,
                   failsLeft, clears, captures>>
    /\ UNCHANGED histKeys
    /\ UNCHANGED resVars
    /\ UNCHANGED outerVars

Draw1 == Draw(1, "draw1")
Draw2 == Draw(2, "draw2")

\* variant: the buffer is handed to the other camera's device
Requeue_WrongCamera(c, p, i, tag) ==
    /\ pc = p
    /\ \E r \in QbufResults(3 - c, i) :
         /\ drvq' = [drvq EXCEPT ![3 - c] = r.q]
         /\ failsLeft' = r.fails
         /\ held' = [held EXCEPT ![3 - c] = @ - (IF r.ok THEN 1 ELSE 0)]
    /\ pc' = Succ(p)
    /\ Log(tag)
    /\ UNCHANGED <<lpc, photo_flag, photo_idx, b, cap, ev, fb, files,
                   clears, captures>>
    /\ UNCHANGED histKeys
    /\ UNCHANGED <<diag, rgbLive>>
    /\ UNCHANGED outerVars

\* ioctl(vfdN, VIDIOC_QBUF, &bN): return value not looked at
Requeue(c, p, i, tag) ==
    /\ pc = p
    /\ \E r \in QbufResults(c, i) :
         /\ drvq' = [drvq EXCEPT ![c] = r.q]
         /\ failsLeft' = r.fails
         /\ held' = [held EXCEPT ![c] = @ - (IF r.ok THEN 1 ELSE 0)]
    /\ pc' = Succ(p)
    /\ Log(tag)
    /\ UNCHANGED <<lpc, photo_flag, photo_idx, b, cap, ev, fb, files,
                   clears, captures>>
    /\ UNCHANGED histKeys
    /\ UNCHANGED <<diag, rgbLive>>
    /\ UNCHANGED outerVars

Q1 == Requeue(1, "q1", b[1], "q1")
Q2 == Requeue(2, "q2", b[2], "q2")

\* ------------------------------------------------- main loop, trigger branch
\* if (photo_flag) { struct v4l2_buffer cap1 = {...}, cap2 = {...};
Check ==
    /\ pc = "check"
    /\ pc' = AfterCheck(photo_flag)
    /\ IF AfterCheck(photo_flag) = "cap_dq1"
         THEN /\ cap' = [c \in Cams |-> 0]
              /\ captures' = captures + 1
              /\ Log("test_set")
         ELSE /\ UNCHANGED <<cap, captures>>
              /\ Log("test_clear")
    /\ UNCHANGED <<lpc, photo_flag, photo_idx, drvq, b, ev, fb, files,
                   failsLeft, clears>>
    /\ UNCHANGED histKeys
    /\ UNCHANGED resVars
    /\ UNCHANGED outerVars

\* ioctl(vfdN, VIDIOC_DQBUF, &capN): return value not looked at
CapDq(c, p, tag) ==
    /\ pc = p
    /\ \E r \in DqbufResults(c, cap[c]) :
         /\ drvq' = [drvq EXCEPT ![c] = r.q]
         /\ cap' = [cap EXCEPT ![c] = r.index]
         /\ failsLeft' = r.fails
         /\ held' = [held EXCEPT ![c] = @ + (IF r.ok THEN 1 ELSE 0)]
         /\ Log(IF r.ok THEN tag \o "_ok" ELSE tag \o "_fail")
    /\ pc' = Succ(p)
    /\ UNCHANGED <<lpc, photo_flag, photo_idx, b, ev, fb, files,
                   clears, captures>>
    /\ UNCHANGED histKeys
    /\ UNCHANGED <<diag, rgbLive>>
    /\ UNCHANGED outerVars

CapDq1 == CapDq(1, "cap_dq1", "cap_dq1")
CapDq2 == CapDq(2, "cap_dq2", "cap_dq2")

\* yuyv_to_jpeg(bufN[capN.index].start, WIDTH, HEIGHT, path): the outcomes of
\* one call; the image is written unless malloc or fopen fails
EncodeOutcomes ==
    {"ok"} \cup (IF failsLeft > 0 THEN {"malloc_fail", "fopen_fail"} ELSE {})

\* what one call of yuyv_to_jpeg does on each of its paths: whether the image
\* file is written, whether perror is called, and how many scratch buffers
\* (rgb) it leaves allocated.  malloc failing: plain return; fopen failing:
\* perror("fopen"), free(rgb), return; otherwise the file is written and rgb freed.
YuyvToJpeg(o) ==
    CASE o = "malloc_fail" -> [written |-> FALSE, perror |-> FALSE, leaked |-> 0]
      [] o = "fopen_fail"  -> [written |-> FALSE, perror |-> TRUE,  leaked |-> 0]
      [] OTHER             -> [written |-> TRUE,  perror |-> FALSE, leaked |-> 0]

\* the path is made from photo_idx: LEFT_FOLDER"/%d.jpg", RIGHT_FOLDER"/%d.jpg";
\* what the call prints and allocates on the way is followed under EncSpec
Encode(c, p, tag) ==
    /\ pc = p
    /\ \E o \in EncodeOutcomes :
         /\ files' = IF YuyvToJpeg(o).written THEN files \cup {<<c, photo_idx>>} ELSE files
         /\ failsLeft' = IF o = "ok" THEN failsLeft ELSE failsLeft - 1
         /\ Log(IF o = "ok" THEN tag \o "_ok" ELSE tag \o "_fail")
    /\ pc' = Succ(p)
    /\ UNCHANGED <<lpc, photo_flag, photo_idx, drvq, b, cap, ev, fb,
                   clears, captures>>
    /\ UNCHANGED histKeys
    /\ UNCHANGED resVars
    /\ UNCHANGED outerVars

Enc1 == Encode(1, "enc1", "enc1")
Enc2 == Encode(2, "enc2", "enc2")

CapQ1 == Requeue(1, "cap_q1", cap[1], "cap_q1")
CapQ2 == Requeue(2, "cap_q2", cap[2], "cap_q2")

\* variant: the branch leaves the flag as it is
Clear_Forgotten ==
    /\ pc = "clear"
    /\ photo_flag' = photo_flag
    /\ clears' = clears + 1
    /\ pressedSinceClear' = FALSE
    /\ pc' = Succ("clear")
    /\ Log("clear")
    /\ UNCHANGED <<lpc, photo_idx, drvq, b, cap, ev, fb, files,
                   failsLeft, captures, presses, latePresses, handlingPresses, sets>>
    /\ UNCHANGED resVars
    /\ UNCHANGED outerVars

\* photo_flag = 0;
Clear ==
    /\ pc = "clear"
    /\ photo_flag' = 0
    /\ clears' = clears + 1
    /\ pressedSinceClear' = FALSE
    /\ pc' = Succ("clear")
    /\ Log("clear")
    /\ UNCHANGED <<lpc, photo_idx, drvq, b, cap, ev, fb, files,
                   failsLeft, captures, presses, latePresses, handlingPresses, sets>>
    /\ UNCHANGED resVars
    /\ UNCHANGED outerVars

\* variant: the counter advances by two
Inc_Twice ==
    /\ pc = "inc"
    /\ photo_idx' = photo_idx + 2
    /\ pc' = Succ("inc")
    /\ Log("inc")
    /\ UNCHANGED <<lpc, photo_flag, drvq, b, cap, ev, fb, files,
                   failsLeft, clears, captures>>
    /\ UNCHANGED histKeys
    /\ UNCHANGED resVars
    /\ UNCHANGED outerVars

\* variant: the counter is not advanced
Inc_Forgotten ==
    /\ pc = "inc"
    /\ photo_idx' = photo_idx
    /\ pc' = Succ("inc")
    /\ Log("inc")
    /\ UNCHANGED <<lpc, photo_flag, drvq, b, cap, ev, fb, files,
                   failsLeft, clears, captures>>
    /\ UNCHANGED histKeys
    /\ UNCHANGED resVars
    /\ UNCHANGED outerVars

\* photo_idx++;
Inc ==
    /\ pc = "inc"
    /\ photo_idx' = photo_idx + 1
    /\ pc' = Succ("inc")
    /\ Log("inc")
    /\ UNCHANGED <<lpc, photo_flag, drvq, b, cap, ev, fb, files,
                   failsLeft, clears, captures>>
    /\ UNCHANGED histKeys
    /\ UNCHANGED resVars
    /\ UNCHANGED outerVars

\* usleep(30000); then the next iteration declares b1, b2 afresh (cap1 and
\* cap2 went out of scope at the end of the branch)
Sleep ==
    /\ pc = "sleep"
    /\ pc' = "dq1"
    /\ b' = [c \in Cams |-> 0]
    /\ cap' = [c \in Cams |-> 0]
    /\ iterLog' = <<>>
    /\ UNCHANGED <<lpc, photo_flag, photo_idx, drvq, ev, fb, files,
                   failsLeft, clears, captures>>
    /\ UNCHANGED histKeys
    /\ UNCHANGED resVars
    /\ UNCHANGED outerVars

MainStep ==
    \/ Dq1 \/ Dq2 \/ Draw1 \/ Draw2 \/ Q1 \/ Q2 \/ Check
    \/ CapDq1 \/ CapDq2 \/ Enc1 \/ Enc2 \/ CapQ1 \/ CapQ2
    \/ Clear \/ Inc \/ Sleep

\* ------------------------------------------------------- listener thread
\* variant: a failed open ends the listener thread only
ListenerOpen_ThreadOnly ==
    /\ lpc = "open"
    /\ lpc' \in {"read", "dead"}
    /\ UNCHANGED <<pc, photo_flag, photo_idx, drvq, b, cap, ev, fb, files,
                   failsLeft, iterLog, clears, captures>>
    /\ UNCHANGED histKeys
    /\ UNCHANGED resVars
    /\ UNCHANGED outerVars

\* fd = open(INPUT_DEVICE, O_RDONLY); if (fd < 0) exit(1);
ListenerOpen ==
    /\ lpc = "open"
    /\ \/ /\ lpc' = "read"
          /\ pc' = pc
       \/ /\ lpc' = "exited"
          /\ pc' = "exited"
    /\ UNCHANGED <<photo_flag, photo_idx, drvq, b, cap, ev, fb, files,
                   failsLeft, iterLog, clears, captures>>
    /\ UNCHANGED histKeys
    /\ UNCHANGED resVars
    /\ UNCHANGED outerVars

\* variant: every key event that is not a release counts as a press
IsPress_AnyKeyDown(e) == e.type = "EV_KEY" /\ e.value # 0

\* if (ev.type == EV_KEY) { if (ev.value == 1) photo_flag = 1; ... }
\* (ev is not looked at again before the next read overwrites it)
IsPress(e) == e.type = "EV_KEY" /\ e.value = 1

\* variant: the loop goes on reading after a failed read
ListenerRead_AfterFail ==
    /\ lpc \in {"read", "dead"}
    /\ \E e \in Events : (IsPress(e) => presses < MaxPresses) /\ ev' = e
    /\ lpc' = "handle"
    /\ UNCHANGED <<pc, photo_flag, photo_idx, drvq, b, cap, fb, files,
                   failsLeft, iterLog, clears, captures>>
    /\ UNCHANGED histKeys
    /\ UNCHANGED resVars
    /\ UNCHANGED outerVars

\* while (read(fd, &ev, sizeof(ev)) > 0): one event arrives
ListenerRead ==
    /\ lpc = "read"
    /\ \E e \in Events : (IsPress(e) => presses < MaxPresses) /\ ev' = e
    /\ lpc' = "handle"
    /\ UNCHANGED <<pc, photo_flag, photo_idx, drvq, b, cap, fb, files,
                   failsLeft, iterLog, clears, captures>>
    /\ UNCHANGED histKeys
    /\ UNCHANGED resVars
    /\ UNCHANGED outerVars

\* read() returns <= 0: perror, close(fd), return NULL
ListenerReadFail ==
    /\ lpc = "read"
    /\ lpc' = "dead"
    /\ UNCHANGED <<pc, photo_flag, photo_idx, drvq, b, cap, ev, fb, files,
                   failsLeft, iterLog, clears, captures>>
    /\ UNCHANGED histKeys
    /\ UNCHANGED resVars
    /\ UNCHANGED outerVars

\* variant: the listener also advances the capture sequence counter
ListenerHandle_Counts ==
    /\ lpc = "handle"
    /\ IF IsPress(ev)
         THEN /\ photo_flag' = 1
              /\ photo_idx' = photo_idx + 1
              /\ presses' = presses + 1
              /\ latePresses' = latePresses + (IF photo_flag = 1 THEN 1 ELSE 0)
              /\ handlingPresses' = handlingPresses + (IF pc \in HandlingPcs THEN 1 ELSE 0)
              /\ sets' = sets + (IF photo_flag = 0 THEN 1 ELSE 0)
              /\ pressedSinceClear' = TRUE
         ELSE /\ UNCHANGED <<photo_flag, photo_idx>>
              /\ UNCHANGED histKeys
    /\ lpc' = "read"
    /\ ev' = NoEvent
    /\ UNCHANGED <<pc, drvq, b, cap, fb, files,
                   failsLeft, iterLog, clears, captures>>
    /\ UNCHANGED resVars
    /\ UNCHANGED outerVars

\* the body of the while loop
ListenerHandle ==
    /\ lpc = "handle"
    /\ IF IsPress(ev)
         THEN /\ photo_flag' = 1
              /\ presses' = presses + 1
              /\ latePresses' = latePresses + (IF photo_flag = 1 THEN 1 ELSE 0)
              /\ handlingPresses' = handlingPresses + (IF pc \in HandlingPcs THEN 1 ELSE 0)
              /\ sets' = sets + (IF photo_flag = 0 THEN 1 ELSE 0)
              /\ pressedSinceClear' = TRUE
         ELSE /\ UNCHANGED photo_flag
              /\ UNCHANGED histKeys
    /\ lpc' = "read"
    /\ ev' = NoEvent
    /\ UNCHANGED <<pc, photo_idx, drvq, b, cap, fb, files,
                   failsLeft, iterLog, clears, captures>>
    /\ UNCHANGED resVars
    /\ UNCHANGED outerVars

ListenerStep == ListenerOpen \/ ListenerRead \/ ListenerReadFail \/ ListenerHandle

Next == MainStep \/ ListenerStep

Spec == Init /\ [][Next]_vars

\* the main loop keeps being scheduled; the listener only runs when events arrive
FairSpec == Spec /\ WF_vars(MainStep)

TypeOK ==
    /\ pc \in {"setup", "dq1", "dq2", "draw1", "draw2", "q1", "q2", "check", "sleep",
              "exited"} \cup TriggerPcs
    /\ lpc \in {"none", "open", "read", "handle", "dead", "exited"}
    /\ photo_flag \in {0, 1}
    /\ photo_idx \in Nat
    /\ \A c \in Cams : b[c] \in BufIdx /\ cap[c] \in BufIdx
    /\ ev \in Events
    /\ failsLeft \in 0 .. MaxFails
    /\ \A c \in Cams : held[c] \in Int /\ dev.cam[c].granted \in 0 .. NumBufs
    /\ diag \subseteq {"fopen", "saved"} \X Nat
    /\ rgbLive \in Nat
    /\ dev.fb \in {"closed", "open", "mapped"}

\* --------------------------------------------- draw_on_lcd: pixel mapping
\* #define WIDTH 640, #define HEIGHT 480
WIDTH == 640
HEIGHT == 480

\* IEEE-754 single precision, round to nearest even. A float is [m, e] with
\* value m * 2^e, where m = 0 or 2^23 <= m < 2^24. All values here are
\* normal and positive.
FZero == [m |-> 0, e |-> 0]

RECURSIVE BitLen(_)
BitLen(n) == IF n = 0 THEN 0 ELSE 1 + BitLen(n \div 2)

\* a mantissa that rounding carried to 2^24
Norm(m, e) == IF m = 2^24 THEN [m |-> 2^23, e |-> e + 1] ELSE [m |-> m, e |-> e]

\* q with remainder r out of unit: to nearest, ties to even
RoundNE(q, r, unit) ==
    IF 2 * r > unit \/ (2 * r = unit /\ q % 2 = 1) THEN q + 1 ELSE q

\* (float)n for an int n >= 0
IntToFloat(n) ==
    IF n = 0 THEN FZero
    ELSE LET L == BitLen(n) IN
         IF L <= 24 THEN [m |-> n * 2^(24 - L), e |-> L - 24]
         ELSE LET s == L - 24
              IN Norm(RoundNE(n \div 2^s, n % 2^s, 2^s), s)

\* k more quotient bits of r / d, by long division
RECURSIVE LongDiv(_, _, _, _)
LongDiv(q, r, d, k) ==
    IF k = 0 THEN <<q, r>>
    ELSE IF 2 * r >= d THEN LongDiv(2 * q + 1, 2 * r - d, d, k - 1)
                       ELSE LongDiv(2 * q, 2 * r, d, k - 1)

\* u / v in single precision, u and v not zero
FDiv(u, v) ==
    LET big == u.m >= v.m
        qr == IF big THEN LongDiv(1, u.m - v.m, v.m, 23)
                     ELSE LongDiv(0, u.m, v.m, 24)
    IN Norm(RoundNE(qr[1], qr[2], v.m), u.e - v.e - (IF big THEN 23 ELSE 24))

\* u * v in single precision; the 48-bit product is hi * 2^24 + lo
FMul(u, v) ==
    IF u.m = 0 \/ v.m = 0 THEN FZero
    ELSE LET uh == u.m \div 4096
             ul == u.m % 4096
             vh == v.m \div 4096
             vl == v.m % 4096
             mid == uh * vl + ul * vh
             t == (mid % 4096) * 4096 + ul * vl
             lo == t % 2^24
             hi == uh * vh + mid \div 4096 + t \div 2^24
         IN IF hi >= 2^23
            THEN Norm(RoundNE(hi, lo, 2^24), u.e + v.e + 24)
            ELSE Norm(RoundNE(2 * hi + lo \div 2^23, lo % 2^23, 2^23),
                      u.e + v.e + 23)

\* (int)f for f >= 0: the fraction is dropped
FloatToInt(f) ==
    IF f.m = 0 \/ f.e <= -24 THEN 0
    ELSE IF f.e >= 0 THEN f.m * 2^f.e
    ELSE f.m \div 2^(0 - f.e)

\* float scale = (float)WIDTH / target;  (int)(t * scale)
Scaled(t, source, target) ==
    FloatToInt(FMul(IntToFloat(t), FDiv(IntToFloat(source), IntToFloat(target))))

\* variant: a call spans the whole width of the surface
TargetW_Full(fb_w) == fb_w

\* int target_w = fb_w / 2; int target_h = fb_h;
TargetW(fb_w) == fb_w \div 2
TargetH(fb_h) == fb_h

\* int src_x = (int)(x * scale_x); if (src_x % 2 != 0) src_x--;
SrcX(x, fb_w) ==
    LET sx == Scaled(x, WIDTH, TargetW(fb_w))
    IN IF sx % 2 # 0 THEN sx - 1 ELSE sx

\* int src_y = (int)(y * scale_y);
SrcY(y, fb_h) == Scaled(y, HEIGHT, TargetH(fb_h))

\* int idx = (src_y * WIDTH + src_x) * 2;
Idx(src_x, src_y) == (src_y * WIDTH + src_x) * 2

\* the panel of the board and two common larger ones
PanelSizes == {<<800, 480>>, <<1024, 600>>, <<1920, 1080>>}
\* surfaces whose extent is past the 24 bits a float holds exactly
HugeSizes == {<<2^26, 1>>, <<2, 2^25>>}
Surfaces ==
    ((2 .. 2 * MaxDim + 1) \X (1 .. MaxDim)) \cup PanelSizes \cup HugeSizes

\* the destination coordinates 0 .. n-1 of one axis: all of them on a small
\* surface, the ends and the middle on a larger one
Coords(n) ==
    IF n <= MaxDim THEN 0 .. (n - 1)
    ELSE {0, 1, n \div 2, n - 2, n - 1}

coordFrame ==
    <<pc, lpc, photo_flag, photo_idx, drvq, b, cap, ev, fb, files, failsLeft,
      iterLog, presses, latePresses, handlingPresses, sets, clears, captures,
      pressedSinceClear, held, diag, rgbLive, spc, dev, enc, lcd, px, rgb, dir, coil, http, fix, filt>>

\* for (y ..) for (x ..): the loops arrive at destination pixel (x, y)
CoordPick ==
    /\ cm.at \in {"entry", "read"}
    /\ \E x \in Coords(TargetW(cm.fb_w)), y \in Coords(TargetH(cm.fb_h)) :
         cm' = [cm EXCEPT !.at = "map", !.x = x, !.y = y]
    /\ UNCHANGED coordFrame

\* src_x, src_y and the alignment of src_x; the reads of p[idx],
\* p[idx + 1], p[idx + 3] follow
CoordMap ==
    /\ cm.at = "map"
    /\ cm' = [cm EXCEPT !.at = "read",
                        !.src_x = SrcX(cm.x, cm.fb_w),
                        !.src_y = SrcY(cm.y, cm.fb_h)]
    /\ UNCHANGED coordFrame

CoordNext == CoordPick \/ CoordMap

\* draw_on_lcd is entered with the surface size the display reports
CoordInit ==
    /\ \E s \in Surfaces :
         cm = [CmIdle EXCEPT !.at = "entry", !.fb_w = s[1], !.fb_h = s[2]]
    /\ pc = "dq1"
    /\ lpc = "open"
    /\ photo_flag = 0
    /\ photo_idx = 0
    /\ drvq = [c \in Cams |-> <<0, 1>>]
    /\ b = [c \in Cams |-> 0]
    /\ cap = [c \in Cams |-> 0]
    /\ ev = NoEvent
    /\ fb = [c \in Cams |-> Blank]
    /\ files = {}
    /\ failsLeft = MaxFails
    /\ iterLog = <<>>
    /\ presses = 0
    /\ latePresses = 0
    /\ handlingPresses = 0
    /\ sets = 0
    /\ clears = 0
    /\ captures = 0
    /\ pressedSinceClear = FALSE
    /\ held = [c \in Cams |-> 0]
    /\ diag = {}
    /\ rgbLive = 0
    /\ spc = SpcLoop
    /\ dev = DevReady
    /\ enc = EncIdle
    /\ PureIdle

CoordSpec == CoordInit /\ [][CoordNext]_vars

\* ------------------------------------------------------------- startup
\* main() before the loop: purge, framebuffer, init_camera twice, thread.
\* spc is the startup statement about to run; dev is what has been set up.
setupFrame ==
    <<photo_flag, photo_idx, b, cap, ev, fb, failsLeft, iterLog, presses,
      latePresses, handlingPresses, sets, clears, captures, pressedSinceClear,
      held, diag, rgbLive, cm, enc, lcd, px, rgb, dir, coil, http, fix, filt>>

At(a) == pc = "setup" /\ spc.at = a
Goto(a) == [spc EXCEPT !.at = a]
Abort == pc' = "exited" /\ UNCHANGED <<spc, dev>>

\* clear_jpg_files(folder of camera c): the still images of that folder are
\* removed (the function itself is followed step by step further below)
Purge(c, a, next) ==
    /\ At(a)
    /\ files' = {f \in files : f[1] # c}
    /\ spc' = Goto(next)
    /\ UNCHANGED <<pc, lpc, dev, drvq, setupFrame>>

\* clear_jpg_files(LEFT_FOLDER); clear_jpg_files(RIGHT_FOLDER);
PurgeLeft == Purge(1, "purge_left", "purge_right")
PurgeRight == Purge(2, "purge_right", "fb_open")

\* int fb_fd = open("/dev/fb0", O_RDWR); if (fb_fd < 0) exit(1);
FbOpen ==
    /\ At("fb_open")
    /\ \E ok \in BOOLEAN :
         IF ok THEN /\ dev' = [dev EXCEPT !.fb = "open"]
                    /\ spc' = Goto("fb_info")
                    /\ pc' = pc
               ELSE Abort
    /\ UNCHANGED <<lpc, drvq, files, setupFrame>>

\* ioctl(fb_fd, FBIOGET_VSCREENINFO, ..); ioctl(fb_fd, FBIOGET_FSCREENINFO, ..);
\* neither result is tested
FbInfo ==
    /\ At("fb_info")
    /\ spc' = Goto("fb_mmap")
    /\ UNCHANGED <<pc, lpc, dev, drvq, files, setupFrame>>

\* fb_mem = mmap(..); if (fb_mem == MAP_FAILED) exit(1);
FbMmap ==
    /\ At("fb_mmap")
    /\ \E ok \in BOOLEAN :
         IF ok THEN /\ dev' = [dev EXCEPT !.fb = "mapped"]
                    /\ spc' = [at |-> "cam_open", c |-> 1, i |-> 0]
                    /\ pc' = pc
               ELSE Abort
    /\ UNCHANGED <<lpc, drvq, files, setupFrame>>

\* *vfd = open(dev, O_RDWR); if (*vfd < 0) exit(1);
CamOpen ==
    /\ At("cam_open")
    /\ \E ok \in BOOLEAN :
         IF ok THEN /\ dev' = [dev EXCEPT !.cam[spc.c].fd = TRUE]
                    /\ spc' = Goto("s_fmt")
                    /\ pc' = pc
               ELSE Abort
    /\ UNCHANGED <<lpc, drvq, files, setupFrame>>

\* if (ioctl(*vfd, VIDIOC_S_FMT, &fmt) < 0) exit(1);
CamSetFormat ==
    /\ At("s_fmt")
    /\ \E ok \in BOOLEAN :
         IF ok THEN /\ dev' = [dev EXCEPT !.cam[spc.c].fmt = TRUE]
                    /\ spc' = Goto("reqbufs")
                    /\ pc' = pc
               ELSE Abort
    /\ UNCHANGED <<lpc, drvq, files, setupFrame>>

\* what VIDIOC_REQBUFS can leave in req.count when 2 are requested; a larger
\* grant than requested acts as 2, since only indices 0 and 1 are ever used
Grants == 0 .. NumBufs

\* if (ioctl(*vfd, VIDIOC_REQBUFS, &req) < 0) exit(1);   req.count is not read
CamReqBufs ==
    /\ At("reqbufs")
    /\ \/ \E g \in Grants :
            /\ dev' = [dev EXCEPT !.cam[spc.c].granted = g]
            /\ spc' = [spc EXCEPT !.at = "for_test", !.i = 0]
            /\ pc' = pc
       \/ Abort
    /\ UNCHANGED <<lpc, drvq, files, setupFrame>>

\* variant: only the first buffer is set up
BufLoopCount_One(c) == 1

\* variant: the loop runs over the buffers the driver granted
BufLoopCount_Granted(c) == dev.cam[c].granted

\* for (int i = 0; i < 2; ++i)
BufLoopCount(c) == NumBufs

CamForTest ==
    /\ At("for_test")
    /\ spc' = Goto(IF spc.i < BufLoopCount(spc.c) THEN "querybuf" ELSE "streamon")
    /\ UNCHANGED <<pc, lpc, dev, drvq, files, setupFrame>>

\* if (ioctl(*vfd, VIDIOC_QUERYBUF, &buf) < 0) exit(1);
\* the driver knows only the indices below the granted count
CamQueryBuf ==
    /\ At("querybuf")
    /\ \/ /\ spc.i < dev.cam[spc.c].granted
          /\ spc' = Goto("mmap")
          /\ UNCHANGED <<pc, dev>>
       \/ Abort
    /\ UNCHANGED <<lpc, drvq, files, setupFrame>>

\* bufs[i].start = mmap(..); if (bufs[i].start == MAP_FAILED) exit(1);
CamMmap ==
    /\ At("mmap")
    /\ \E ok \in BOOLEAN :
         IF ok THEN /\ dev' = [dev EXCEPT !.cam[spc.c].mapped = @ \cup {spc.i}]
                    /\ spc' = Goto("qbuf")
                    /\ pc' = pc
               ELSE Abort
    /\ UNCHANGED <<lpc, drvq, files, setupFrame>>

\* if (ioctl(*vfd, VIDIOC_QBUF, &buf) < 0) exit(1);   then ++i
CamQBuf ==
    /\ At("qbuf")
    /\ \E ok \in BOOLEAN :
         IF ok THEN /\ drvq' = [drvq EXCEPT ![spc.c] = Append(@, spc.i)]
                    /\ spc' = [spc EXCEPT !.at = "for_test", !.i = @ + 1]
                    /\ UNCHANGED <<pc, dev>>
               ELSE Abort /\ UNCHANGED drvq
    /\ UNCHANGED <<lpc, files, setupFrame>>

\* where main goes on after an init_camera call has returned
AfterCamera(c) ==
    IF c = 1 THEN [at |-> "cam_open", c |-> 2, i |-> 0]
             ELSE [spc EXCEPT !.at = "thread"]

\* variant: the result of VIDIOC_STREAMON is not tested
CamStreamOn_Unchecked ==
    /\ At("streamon")
    /\ \E ok \in BOOLEAN :
         /\ dev' = [dev EXCEPT !.cam[spc.c].streaming = ok]
         /\ spc' = AfterCamera(spc.c)
         /\ pc' = pc
    /\ UNCHANGED <<lpc, drvq, files, setupFrame>>

\* if (ioctl(*vfd, VIDIOC_STREAMON, &type) < 0) exit(1);
CamStreamOn ==
    /\ At("streamon")
    /\ \E ok \in BOOLEAN :
         IF ok THEN /\ dev' = [dev EXCEPT !.cam[spc.c].streaming = TRUE]
                    /\ spc' = AfterCamera(spc.c)
                    /\ pc' = pc
               ELSE Abort
    /\ UNCHANGED <<lpc, drvq, files, setupFrame>>

\* pthread_create(&tid, NULL, event_listener, NULL);  result not tested;
\* int photo_idx = 0; while (1) {
ThreadCreate ==
    /\ At("thread")
    /\ \E ok \in BOOLEAN :
         /\ dev' = [dev EXCEPT !.thread = ok]
         /\ lpc' = IF ok THEN "open" ELSE "none"
    /\ spc' = [spc EXCEPT !.at = "loop"]
    /\ pc' = "dq1"
    /\ UNCHANGED <<drvq, files, setupFrame>>

SetupStep ==
    \/ PurgeLeft \/ PurgeRight \/ FbOpen \/ FbInfo \/ FbMmap
    \/ CamOpen \/ CamSetFormat \/ CamReqBufs \/ CamForTest
    \/ CamQueryBuf \/ CamMmap \/ CamQBuf \/ CamStreamOn
    \/ ThreadCreate

\* still images an earlier run may have left in the two folders
OldImages == {<<1, 0>>, <<2, 0>>}

\* the process at the first statement of main()
StartInit ==
    /\ pc = "setup"
    /\ lpc = "none"
    /\ spc = [at |-> "purge_left", c |-> 0, i |-> 0]
    /\ dev = DevNone
    /\ drvq = [c \in Cams |-> <<>>]
    /\ photo_flag = 0
    /\ photo_idx = 0
    /\ b = [c \in Cams |-> 0]
    /\ cap = [c \in Cams |-> 0]
    /\ ev = NoEvent
    /\ fb = [c \in Cams |-> Blank]
    /\ files \in {{}, OldImages}
    /\ failsLeft = MaxFails
    /\ iterLog = <<>>
    /\ presses = 0
    /\ latePresses = 0
    /\ handlingPresses = 0
    /\ sets = 0
    /\ clears = 0
    /\ captures = 0
    /\ pressedSinceClear = FALSE
    /\ held = [c \in Cams |-> 0]
    /\ diag = {}
    /\ rgbLive = 0
    /\ cm = CmIdle
    /\ enc = EncIdle
    /\ PureIdle

StartNext == SetupStep \/ MainStep \/ ListenerStep

StartSpec == StartInit /\ [][StartNext]_vars

\* ------------------------------------------- yuyv_to_jpeg, step by step
\* The two calls of one capture event (main, lines 680-683), each followed
\* through malloc, the conversion, fopen, the compression and the cleanup.
encFrame ==
    <<lpc, photo_flag, photo_idx, drvq, b, cap, ev, fb, failsLeft, presses,
      latePresses, handlingPresses, sets, clears, captures, pressedSinceClear,
      held, spc, dev, cm, lcd, px, rgb, dir, coil, http, fix, filt>>

\* yuyv_to_jpeg(bufN[capN.index].start, WIDTH, HEIGHT, path); if (!yuyv) return;
\* the pointer comes from mmap and is never NULL
EncCall ==
    /\ enc.at = "main"
    /\ enc' = [enc EXCEPT !.at = "malloc", !.calls[enc.c] = @ + 1]
    /\ UNCHANGED <<pc, iterLog, files, diag, rgbLive, encFrame>>

\* unsigned char *rgb = malloc(width * height * 3); if (!rgb) return;
EncMalloc ==
    /\ enc.at = "malloc"
    /\ \E ok \in BOOLEAN :
         IF ok THEN /\ rgbLive' = rgbLive + 1
                    /\ enc' = [enc EXCEPT !.at = "convert"]
               ELSE /\ rgbLive' = rgbLive
                    /\ enc' = [enc EXCEPT !.at = "ret", !.res[enc.c] = "malloc_fail"]
    /\ UNCHANGED <<pc, iterLog, files, diag, encFrame>>

\* for (i = 0; i < width * height * 2; i += 4) { .. *out++ = .. }
EncConvert ==
    /\ enc.at = "convert"
    /\ enc' = [enc EXCEPT !.at = "fopen"]
    /\ UNCHANGED <<pc, iterLog, files, diag, rgbLive, encFrame>>

\* FILE *outf = fopen(filename, "wb");
\* if (!outf) { perror("fopen"); free(rgb); return; }
EncFopen ==
    /\ enc.at = "fopen"
    /\ \E ok \in BOOLEAN :
         IF ok THEN /\ enc' = [enc EXCEPT !.at = "compress"]
                    /\ UNCHANGED <<diag, rgbLive>>
               ELSE /\ diag' = diag \cup {<<"fopen", enc.c>>}
                    /\ rgbLive' = rgbLive - 1
                    /\ enc' = [enc EXCEPT !.at = "ret", !.res[enc.c] = "fopen_fail"]
    /\ UNCHANGED <<pc, iterLog, files, encFrame>>

\* jpeg_create_compress .. jpeg_write_scanlines .. jpeg_finish_compress
EncCompress ==
    /\ enc.at = "compress"
    /\ files' = files \cup {<<enc.c, photo_idx>>}
    /\ enc' = [enc EXCEPT !.at = "cleanup"]
    /\ UNCHANGED <<pc, iterLog, diag, rgbLive, encFrame>>

\* fclose(outf); jpeg_destroy_compress(&cinfo); free(rgb);
EncCleanup ==
    /\ enc.at = "cleanup"
    /\ rgbLive' = rgbLive - 1
    /\ enc' = [enc EXCEPT !.at = "ret", !.res[enc.c] = "ok"]
    /\ UNCHANGED <<pc, iterLog, files, diag, encFrame>>

\* back in main: the call returns nothing; the next statement follows
EncReturn ==
    /\ enc.at = "ret"
    /\ pc' = Succ(pc)
    /\ Log((IF enc.c = 1 THEN "enc1" ELSE "enc2")
           \o (IF enc.res[enc.c] = "ok" THEN "_ok" ELSE "_fail"))
    /\ enc' = IF enc.c = 1 THEN [enc EXCEPT !.at = "main", !.c = 2]
                           ELSE [enc EXCEPT !.at = "printf"]
    /\ UNCHANGED <<files, diag, rgbLive, encFrame>>

\* printf("[SAVE] Photo %d saved: ..", photo_idx, left_path, right_path);
EncPrintSaved ==
    /\ enc.at = "printf"
    /\ diag' = diag \cup {<<"saved", photo_idx>>}
    /\ enc' = [enc EXCEPT !.at = "done"]
    /\ UNCHANGED <<pc, iterLog, files, rgbLive, encFrame>>

EncNext ==
    \/ EncCall \/ EncMalloc \/ EncConvert \/ EncFopen
    \/ EncCompress \/ EncCleanup \/ EncReturn \/ EncPrintSaved

\* the main loop at line 680 in the capture event that uses index k: the
\* preview was updated, both capture buffers are dequeued, and of the k
\* earlier events any of the files may have been written
EncInit ==
    /\ \E k \in 0 .. MaxShots :
         /\ photo_idx = k
         /\ files \in SUBSET (Cams \X (0 .. (k - 1)))
         /\ presses = k + 1 /\ sets = k + 1 /\ captures = k + 1 /\ clears = k
    /\ enc = [EncIdle EXCEPT !.at = "main", !.c = 1]
    /\ pc = "enc1"
    /\ lpc = "read"
    /\ photo_flag = 1
    /\ drvq = [c \in Cams |-> <<0>>]
    /\ b = [c \in Cams |-> 0]
    /\ cap = [c \in Cams |-> 1]
    /\ ev = NoEvent
    /\ fb = [c \in Cams |-> c]
    /\ failsLeft = MaxFails
    /\ iterLog = <<"dq1_ok", "dq2_ok", "draw1", "draw2", "q1", "q2",
                   "test_set", "cap_dq1_ok", "cap_dq2_ok">>
    /\ latePresses = 0
    /\ handlingPresses = 0
    /\ pressedSinceClear = TRUE
    /\ held = [c \in Cams |-> 1]
    /\ diag = {}
    /\ rgbLive = 0
    /\ spc = SpcLoop
    /\ dev = DevReady
    /\ cm = CmIdle
    /\ PureIdle

EncSpec == EncInit /\ [][EncNext]_vars

\* ------------------------------------------------ pure-function harness
\* the program at the top of its first loop iteration; the specifications of
\* single functions keep it there and follow the function in a variable of
\* their own
AtLoopStart ==
    /\ pc = "dq1"
    /\ lpc = "open"
    /\ photo_flag = 0
    /\ photo_idx = 0
    /\ drvq = [c \in Cams |-> <<0, 1>>]
    /\ b = [c \in Cams |-> 0]
    /\ cap = [c \in Cams |-> 0]
    /\ ev = NoEvent
    /\ fb = [c \in Cams |-> Blank]
    /\ files = {}
    /\ failsLeft = MaxFails
    /\ iterLog = <<>>
    /\ presses = 0
    /\ latePresses = 0
    /\ handlingPresses = 0
    /\ sets = 0
    /\ clears = 0
    /\ captures = 0
    /\ pressedSinceClear = FALSE
    /\ held = [c \in Cams |-> 0]
    /\ diag = {}
    /\ rgbLive = 0
    /\ spc = SpcLoop
    /\ dev = DevReady
    /\ cm = CmIdle
    /\ enc = EncIdle

progVars ==
    <<pc, lpc, photo_flag, photo_idx, drvq, b, cap, ev, fb, files, failsLeft,
      iterLog, presses, latePresses, handlingPresses, sets, clears, captures,
      pressedSinceClear, held, diag, rgbLive, spc, dev, cm, enc>>

\* the values a byte of a frame takes in the checks: an even spread over
\* 0 .. 255 and the nominal limits of luma and chroma
Levels == {(255 * k) \div MaxLevels : k \in 0 .. MaxLevels} \cup {16, 128, 235, 240}

\* ------------------------------------------- draw_on_lcd: colour conversion
\* n >> 8 on an int (arithmetic shift: rounds towards minus infinity)
Shr8(n) == n \div 256

\* (r > 255) ? 255 : (r < 0 ? 0 : r), without the test
Clamp_None(n) == n

\* (r > 255) ? 255 : (r < 0 ? 0 : r)
Clamp(n) == IF n > 255 THEN 255 ELSE IF n < 0 THEN 0 ELSE n

\* an unsigned 32-bit word as its two 16-bit halves
ToWord(n) == [hi |-> (n \div 65536) % 65536, lo |-> n % 65536]

\* n << k as a 32-bit pattern, for k = 8, 16, 24
Shl(n, k) ==
    IF k >= 16 THEN [hi |-> (n * 2^(k - 16)) % 65536, lo |-> 0]
    ELSE ToWord(n * 2^k)

RECURSIVE BitOr(_, _)
BitOr(m, n) ==
    IF m = 0 THEN n
    ELSE IF n = 0 THEN m
    ELSE 2 * BitOr(m \div 2, n \div 2) + (IF m % 2 = 1 \/ n % 2 = 1 THEN 1 ELSE 0)

WordOr(v, w) == [hi |-> BitOr(v.hi, w.hi), lo |-> BitOr(v.lo, w.lo)]

\* int c = y0 - 16; int d = u - 128; int e = v - 128;
\* int r = (298 * c + 409 * e + 128) >> 8; .. g .. b ..; then the clamps
DrawRGB(y0, u, v) ==
    LET c == y0 - 16
        d == u - 128
        e == v - 128
    IN <<Clamp(Shr8(298 * c + 409 * e + 128)),
         Clamp(Shr8(298 * c - 100 * d - 208 * e + 128)),
         Clamp(Shr8(298 * c + 516 * d + 128))>>

\* (0xFF << 24) | (r << 16) | (g << 8) | b
PackARGB(t) ==
    WordOr(WordOr(WordOr(Shl(255, 24), Shl(t[1], 16)), Shl(t[2], 8)), ToWord(t[3]))

DrawPixel(y0, u, v) == PackARGB(DrawRGB(y0, u, v))

\* the all-zero word
Word0 == [hi |-> 0, lo |-> 0]

pixelFrame == <<progVars, lcd, rgb, dir, sideVars>>

\* y0 = p[idx]; u = p[idx + 1]; v = p[idx + 3]; .. row[x + x_offset] = ..
PixelConvert ==
    /\ px.at = "in"
    /\ px' = [px EXCEPT !.at = "out", !.word = DrawPixel(px.y0, px.u, px.v)]
    /\ UNCHANGED pixelFrame

\* the three bytes read for one destination pixel
PixelInit ==
    /\ \E y0 \in Levels, u \in Levels, v \in Levels :
         px = [at |-> "in", y0 |-> y0, u |-> u, v |-> v, word |-> Word0]
    /\ AtLoopStart
    /\ lcd = LcdIdle /\ rgb = RgbIdle /\ dir = DirIdle
    /\ SideIdle

PixelSpec == PixelInit /\ [][PixelConvert]_vars

\* ------------------------------------------- yuyv_to_jpeg: conversion loop
\* A YUYV frame is given by its first luma byte, its first chroma byte and
\* the step from one byte to the next: even bytes are luma, odd bytes chroma,
\* and byte i is (luma or chroma) + step * i mod 256.
FrameSteps == {0, 1, 37, 128}
Chromas == {0, 128, 240}
Frames == [luma : Levels, chroma : Chromas, step : FrameSteps]
FrameByte(f, i) ==
    IF i % 2 = 0 THEN (f.luma + f.step * i) % 256
    ELSE (f.chroma + f.step * i) % 256

\* the frame sizes followed: even widths, since two pixels share one group
FrameSizes == {<<2 * w, h>> : w \in 1 .. MaxDim, h \in 1 .. MaxDim}

\* c = y0 - 16; d = u - 128; e = v - 128; r = ..; g = ..; b = ..;
\* *out++ = (r > 255) ? 255 : (r < 0 ? 0 : r); .. g .. b
EncRGB(yy, u, v) ==
    LET c == yy - 16
        d == u - 128
        e == v - 128
    IN <<Clamp(Shr8(298 * c + 409 * e + 128)),
         Clamp(Shr8(298 * c - 100 * d - 208 * e + 128)),
         Clamp(Shr8(298 * c + 516 * d + 128))>>

\* variant: the second pixel of a group is converted from the first luma
EncGroupBytes_SameLuma(y0, u, y1, v) == EncRGB(y0, u, v) \o EncRGB(y0, u, v)

\* the six bytes written for one group: first with c = y0 - 16, then with
\* c = y1 - 16 and the same d and e
EncGroupBytes(y0, u, y1, v) == EncRGB(y0, u, v) \o EncRGB(y1, u, v)

rgbFrame == <<progVars, lcd, px, dir, sideVars>>

\* one iteration of for (int i = 0; i < width * height * 2; i += 4)
RgbGroup ==
    /\ rgb.at = "loop"
    /\ rgb.i < rgb.w * rgb.h * 2
    /\ rgb' = [rgb EXCEPT
                 !.out = @ \o EncGroupBytes(FrameByte(rgb.frame, rgb.i),
                                            FrameByte(rgb.frame, rgb.i + 1),
                                            FrameByte(rgb.frame, rgb.i + 2),
                                            FrameByte(rgb.frame, rgb.i + 3)),
                 !.i = @ + 4]
    /\ UNCHANGED rgbFrame

\* the loop test fails: the rgb buffer is complete
RgbEnd ==
    /\ rgb.at = "loop"
    /\ ~(rgb.i < rgb.w * rgb.h * 2)
    /\ rgb' = [rgb EXCEPT !.at = "done"]
    /\ UNCHANGED rgbFrame

RgbNext == RgbGroup \/ RgbEnd

\* unsigned char *out = rgb; with the frame and the size of the call
RgbInit ==
    /\ \E f \in Frames, z \in FrameSizes :
         rgb = [at |-> "loop", frame |-> f, w |-> z[1], h |-> z[2], i |-> 0, out |-> <<>>]
    /\ AtLoopStart
    /\ lcd = LcdIdle /\ px = PxIdle /\ dir = DirIdle
    /\ SideIdle

RgbSpec == RgbInit /\ [][RgbNext]_vars

\* ------------------------------------------- draw_on_lcd: the two calls
\* The surface is followed as rows of 32-bit words, row r starting
\* r * stride bytes into the mapping; stride is a multiple of 4 and at least
\* 4 * fb_w (a packed 32-bit surface, possibly with padding after each row).
FrameA == [luma |-> 235, chroma |-> 128, step |-> 0]
FrameB == [luma |-> 16, chroma |-> 128, step |-> 0]
FrameRamp == [luma |-> 0, chroma |-> 240, step |-> 37]
DrawFrames == {FrameA, FrameB, FrameRamp}

Panel == [fb_w |-> 800, fb_h |-> 480, stride |-> 3200]
DrawSurfaces ==
    {[fb_w |-> w, fb_h |-> h, stride |-> 4 * (w + pad)] :
        w \in 2 .. (2 * MaxDim + 1), h \in 1 .. MaxDim, pad \in {0, 1}}
      \cup {Panel}

\* what the surface holds before the first call: words with a zero high
\* byte, which no call writes
Prior(r, c) == [hi |-> 0, lo |-> (r * 251 + c) % 65536]

\* variant: both calls are given offset 0
XOffset_Zero(side, fb_w) == 0

\* the last argument of the two calls: 0 and vinfo.xres / 2
XOffset(side, fb_w) == IF side = "left" THEN 0 ELSE fb_w \div 2

\* src_x for every destination column and src_y for every destination row
\* of the surfaces followed
SrcXTable ==
    [w \in {s.fb_w : s \in DrawSurfaces} |->
        [x \in 0 .. (TargetW(w) - 1) |-> SrcX(x, w)]]
SrcYTable ==
    [h \in {s.fb_h : s \in DrawSurfaces} |->
        [y \in 0 .. (TargetH(h) - 1) |-> SrcY(y, h)]]

\* the word written for destination column x of row y
DrawWord(frame, x, y, fb_w, fb_h) ==
    LET idx == Idx(SrcXTable[fb_w][x], SrcYTable[fb_h][y])
    IN DrawPixel(FrameByte(frame, idx), FrameByte(frame, idx + 1),
                 FrameByte(frame, idx + 3))

SetMax(S) == CHOOSE m \in S : \A n \in S : n <= m

lcdFrame == <<progVars, px, rgb, dir, sideVars>>

\* one call: for every y in 0 .. target_h - 1 and x in 0 .. target_w - 1 the
\* word for (x, y) is stored at row[x + x_offset], row = fb + y * stride
\* bytes, in the order of the loops.  The word at column c of row r is at
\* r * pitch + c words; Writers(r, c) are the y whose row[x + x_offset]
\* is that word for some x, and the last of them leaves its word there.
DrawOnLcd ==
    /\ lcd.at \in {"left", "right"}
    /\ LET side == lcd.at
           pitch == lcd.stride \div 4
           target_w == TargetW(lcd.fb_w)
           target_h == TargetH(lcd.fb_h)
           x_offset == XOffset(side, lcd.fb_w)
           XOf(r, c, y) == (r - y) * pitch + c - x_offset
           Writers(r, c) ==
               {y \in (r - (target_w - 1 + x_offset) \div pitch) .. r :
                   /\ y \in 0 .. (target_h - 1)
                   /\ XOf(r, c, y) \in 0 .. (target_w - 1)}
       IN lcd' = [lcd EXCEPT
             !.at = IF side = "left" THEN "right" ELSE "done",
             !.mem = [r \in DOMAIN lcd.mem |-> [c \in DOMAIN lcd.mem[r] |->
                        IF Writers(r, c) = {} THEN lcd.mem[r][c]
                        ELSE LET y == SetMax(Writers(r, c))
                             IN DrawWord(lcd.frame[side], XOf(r, c, y), y,
                                         lcd.fb_w, lcd.fb_h)]],
             !.hits[side] = [r \in DOMAIN lcd.mem |-> [c \in DOMAIN lcd.mem[r] |->
                        lcd.hits[side][r][c] + Cardinality(Writers(r, c))]]]
    /\ UNCHANGED lcdFrame

DrawNext == DrawOnLcd

\* the first call is entered with the frames of the two dequeued buffers;
\* the panel of the board is followed with the two uniform frames
DrawInit ==
    /\ \E s \in DrawSurfaces, fl \in DrawFrames, fr \in DrawFrames :
         /\ s = Panel => fl = FrameA /\ fr = FrameB
         /\ lcd = [at |-> "left", fb_w |-> s.fb_w, fb_h |-> s.fb_h,
                   stride |-> s.stride, frame |-> [left |-> fl, right |-> fr],
                   mem |-> [r \in 0 .. (s.fb_h - 1) |->
                              [c \in 0 .. (s.stride \div 4 - 1) |-> Prior(r, c)]],
                   hits |-> [sd \in {"left", "right"} |->
                              [r \in 0 .. (s.fb_h - 1) |->
                                 [c \in 0 .. (s.stride \div 4 - 1) |-> 0]]]]
    /\ AtLoopStart
    /\ px = PxIdle /\ rgb = RgbIdle /\ dir = DirIdle
    /\ SideIdle

DrawSpec == DrawInit /\ [][DrawNext]_vars

\* ------------------------------------------------------- clear_jpg_files
\* File names are sequences of characters.
Dot == <<".">>
DotDot == <<".", ".">>
DotJpg == <<".", "j", "p", "g">>
Names ==
    { <<"0">> \o DotJpg,
      <<"a">> \o DotJpg \o <<".", "b", "a", "k">>,
      <<"a">> \o DotJpg \o <<"x">>,
      <<"n", ".", "t", "x", "t">>,
      <<"x", ".", "J", "P", "G">>,
      <<"j", "p", "g">> }

\* strstr(haystack, needle) != NULL
Strstr(haystack, needle) ==
    \E i \in 0 .. (Len(haystack) - Len(needle)) :
        SubSeq(haystack, i + 1, i + Len(needle)) = needle

\* if (strstr(entry->d_name, ".jpg"))
Matches(name) == Strstr(name, DotJpg)

dirFrame == <<progVars, lcd, px, rgb, sideVars>>

\* stat(folder, &st) and the test of S_ISDIR
PurgeStat ==
    /\ dir.at = "stat"
    /\ dir' = [dir EXCEPT
                 !.at = CASE dir.exists = "absent" -> "mkdir"
                          [] dir.exists = "file" -> "ret"
                          [] OTHER -> "opendir",
                 !.failed = @ \/ dir.exists = "file"]
    /\ UNCHANGED dirFrame

\* mkdir(folder, 0755), then return
PurgeMkdir ==
    /\ dir.at = "mkdir"
    /\ \E ok \in BOOLEAN :
         dir' = [dir EXCEPT !.at = "ret",
                            !.exists = IF ok THEN "dir" ELSE @,
                            !.failed = @ \/ ~ok]
    /\ UNCHANGED dirFrame

\* opendir(folder)
PurgeOpendir ==
    /\ dir.at = "opendir"
    /\ \E ok \in BOOLEAN :
         dir' = [dir EXCEPT !.at = IF ok THEN "readdir" ELSE "ret",
                            !.todo = IF ok THEN dir.entries \cup {Dot, DotDot} ELSE @,
                            !.count = 0,
                            !.failed = @ \/ ~ok]
    /\ UNCHANGED dirFrame

\* readdir returns an entry: "." and ".." are skipped, a name containing
\* ".jpg" is removed; remove fails for an entry that cannot be removed
PurgeEntry ==
    /\ dir.at = "readdir"
    /\ \E n \in dir.todo :
         LET hit == n \notin {Dot, DotDot} /\ Matches(n)
             ok == n \notin dir.stuck
         IN dir' = [dir EXCEPT
                      !.todo = @ \ {n},
                      !.entries = IF hit /\ ok THEN @ \ {n} ELSE @,
                      !.count = IF hit /\ ok THEN @ + 1 ELSE @,
                      !.failed = @ \/ (hit /\ ~ok)]
    /\ UNCHANGED dirFrame

\* readdir returns NULL: closedir and the closing message
PurgeClosedir ==
    /\ dir.at = "readdir"
    /\ dir.todo = {}
    /\ dir' = [dir EXCEPT !.at = "ret"]
    /\ UNCHANGED dirFrame

\* the function is called once more on the same folder
PurgeAgain ==
    /\ dir.at = "ret"
    /\ dir.run = 1
    /\ dir' = [dir EXCEPT !.at = "stat", !.run = 2,
                          !.after1 = [exists |-> dir.exists, entries |-> dir.entries]]
    /\ UNCHANGED dirFrame

PurgeNext ==
    \/ PurgeStat \/ PurgeMkdir \/ PurgeOpendir
    \/ PurgeEntry \/ PurgeClosedir \/ PurgeAgain

\* the folder is absent, a regular file, or a directory of up to MaxEntries
\* entries of which one may be impossible to remove
PurgeInit ==
    /\ \E ex \in {"absent", "file", "dir"}, es \in SUBSET Names, st \in SUBSET Names :
         /\ Cardinality(es) <= MaxEntries
         /\ ex # "dir" => es = {}
         /\ st \subseteq es /\ Cardinality(st) <= 1
         /\ dir = [at |-> "stat", run |-> 1, exists |-> ex, entries |-> es,
                   stuck |-> st, todo |-> {}, count |-> 0, failed |-> FALSE,
                   before |-> [exists |-> ex, entries |-> es],
                   after1 |-> [exists |-> ex, entries |-> es]]
    /\ AtLoopStart
    /\ lcd = LcdIdle /\ px = PxIdle /\ rgb = RgbIdle
    /\ SideIdle

PurgeSpec == PurgeInit /\ [][PurgeNext]_vars

\* =================================================== coil_trigger_capture
TRIGGER_COUNT == 5
HOLD_TIME_US == 500000
TARGET_FPS == 15
SNAPSHOT_INTERVAL_US == 1000000 \div TARGET_FPS

\* the camera program is not being followed
CamIdle ==
    /\ AtLoopStart
    /\ lcd = LcdIdle /\ px = PxIdle /\ rgb = RgbIdle /\ dir = DirIdle
camVars == <<progVars, lcd, px, rgb, dir>>
coilFrame == <<camVars, http, fix, filt>>

\* what atoi(buf) gives for the raw ADC file, and what strtof gives for the
\* scale file, in thousandths (0.732 is 732); 1.0f when the scale is not read
Raws == {-5, 0, 7}
Scales == {0, 732}
DefaultScale == 1000

\* float voltage = (raw * scale) / 1000.0f;  if (voltage > VOLTAGE_THRESH)
\* with VOLTAGE_THRESH 0.0f: the sign of raw * scale
Above(raw, scale) == raw * scale > 0

\* the time one http_get_snapshot_save call may take, in microseconds
AttemptTimes == {0, 300000}

CoilGoto(a) == coil' = [coil EXCEPT !.at = a]

\* write_index_html(n): open(.., O_WRONLY|O_CREAT|O_TRUNC); if (fd < 0) return;
\* then the page listing the images 000 .. n-1 is written
IndexAfter(n, ok) == IF ok THEN n ELSE coil.index

\* mkdir_p(CAPS_DIR); rm_caps_dir_contents(); g_total_saved = 0;
CoilPrep ==
    /\ coil.at = "prep"
    /\ coil' = [coil EXCEPT !.at = "index0", !.files = {}, !.index = -1, !.total = 0]
    /\ UNCHANGED coilFrame

\* write_index_html(0);
CoilIndex0 ==
    /\ coil.at = "index0"
    /\ \E ok \in BOOLEAN :
         /\ ~ok => coil.fails > 0
         /\ coil' = [coil EXCEPT !.at = "mjpg", !.index = IndexAfter(0, ok),
                                 !.fails = IF ok THEN @ ELSE @ - 1]
    /\ UNCHANGED coilFrame

\* pid_t mjpg_pid = start_mjpg_streamer(); a failure is only reported
CoilMjpg ==
    /\ coil.at = "mjpg"
    /\ CoilGoto("adc_open")
    /\ UNCHANGED coilFrame

\* fd_raw = open(..); fd_scale = open(..); if (fd_raw < 0 || fd_scale < 0) return -1;
CoilAdcOpen ==
    /\ coil.at = "adc_open"
    /\ \E ok \in BOOLEAN : CoilGoto(IF ok THEN "scale" ELSE "exited")
    /\ UNCHANGED coilFrame

\* len = read(fd_scale, ..); if (len > 0) scale = strtof(buf, NULL);
CoilScale ==
    /\ coil.at = "scale"
    /\ \E sc \in Scales \cup {DefaultScale} :
         coil' = [coil EXCEPT !.at = "init_a", !.scale = sc]
    /\ UNCHANGED coilFrame

\* gpio_write(pin, value): fopen of the value file; if (!f) return; else the
\* value is written
PinAfterWrite(level, value, ok) == IF ok THEN value ELSE level

\* gpio_init_out(pin, init_val): export, direction "out" (exit(1) when the
\* direction file cannot be opened; the pin becomes an output at low level),
\* then gpio_write(pin, init_val)
CoilGpioInit(pin, init_val, from, to) ==
    /\ coil.at = from
    /\ \/ CoilGoto("exited")
       \/ \E ok \in BOOLEAN :
            /\ ~ok => coil.fails > 0
            /\ coil' = [coil EXCEPT !.at = to,
                                    ![pin] = PinAfterWrite(0, init_val, ok),
                                    !.fails = IF ok THEN @ ELSE @ - 1]
    /\ UNCHANGED coilFrame

CoilInitA == CoilGpioInit("A", 0, "init_a", "init_b")
CoilInitB == CoilGpioInit("B", 1, "init_b", "read")

\* variant: a reading at or below the threshold leaves the count
CountAfterLow_Keep(count) == count

\* } else { count = 0; }
CountAfterLow(count) == 0

\* one loop iteration up to the trigger test: read(fd_raw, ..); a failed read
\* changes nothing; otherwise if (voltage > VOLTAGE_THRESH) {
\* if (++count >= TRIGGER_COUNT) { .. } } else count = 0;
CoilRead ==
    /\ coil.at = "read"
    /\ \/ coil' = [coil EXCEPT !.at = "usleep"]
       \/ \E raw \in Raws :
            IF Above(raw, coil.scale)
            THEN /\ coil.count + 1 >= TRIGGER_COUNT => coil.triggers < MaxTriggers
                 /\ coil' = [coil EXCEPT
                      !.count = @ + 1,
                      !.run = @ + 1,
                      !.dur = IF coil.count + 1 >= TRIGGER_COUNT THEN HOLD_TIME_US ELSE @,
                      !.at = IF coil.count + 1 >= TRIGGER_COUNT THEN "burst" ELSE "usleep"]
            ELSE coil' = [coil EXCEPT !.count = CountAfterLow(@), !.run = 0,
                                      !.at = "usleep"]
    /\ UNCHANGED coilFrame

\* while (1) { attempt; if (el >= duration_us) break; usleep(..); }
FirstTest == "attempt"

\* entry of capture_snapshots(duration_us), the argument in coil.dur:
\* saved = 0; clock_gettime(ts0)
CoilBurst ==
    /\ coil.at = "burst"
    /\ coil' = [coil EXCEPT !.at = FirstTest, !.el = 0,
                            !.saved = 0, !.attempts = 0, !.total0 = coil.total]
    /\ UNCHANGED coilFrame

\* variant: the counter advances after a failed snapshot as well
TotalAfter_Always(total, ok) == total + 1

\* if (http_get_snapshot_save(.., name) == 0) { ++saved; ++g_total_saved; }
TotalAfter(total, ok) == IF ok THEN total + 1 ELSE total

\* snprintf(name, .., "%03d.jpg", g_total_saved); the snapshot call, which on
\* success has written the file of that name; then clock_gettime(ts1)
CoilAttempt ==
    /\ coil.at = "attempt"
    /\ \E ok \in BOOLEAN, dt \in AttemptTimes :
         coil' = [coil EXCEPT
            !.at = "elapsed",
            !.attempts = @ + 1,
            !.files = IF ok THEN @ \cup {coil.total} ELSE @,
            !.over = @ \/ (ok /\ coil.total \in coil.files),
            !.saved = IF ok THEN @ + 1 ELSE @,
            !.total = TotalAfter(@, ok),
            !.el = @ + dt]
    /\ UNCHANGED coilFrame

\* if (el >= (long long)duration_us) break; usleep(SNAPSHOT_INTERVAL_US);
CoilElapsed ==
    /\ coil.at = "elapsed"
    /\ IF coil.el >= coil.dur
       THEN CoilGoto("index")
       ELSE coil' = [coil EXCEPT !.at = "attempt", !.el = @ + SNAPSHOT_INTERVAL_US]
    /\ UNCHANGED coilFrame

\* write_index_html(g_total_saved); return saved;
CoilIndex ==
    /\ coil.at = "index"
    /\ \E ok \in BOOLEAN :
         /\ ~ok => coil.fails > 0
         /\ coil' = [coil EXCEPT
               !.at = IF coil.caller = "main" THEN "b_low" ELSE "returned",
               !.index = IndexAfter(coil.total, ok),
               !.ret = coil.saved,
               !.fails = IF ok THEN @ ELSE @ - 1]
    /\ UNCHANGED coilFrame

\* gpio_write(pin, value) in the trigger handling
CoilGpio(pin, value, from, to) ==
    /\ coil.at = from
    /\ \E ok \in BOOLEAN :
         /\ ~ok => coil.fails > 0
         /\ coil' = [coil EXCEPT !.at = to,
                                 ![pin] = PinAfterWrite(@, value, ok),
                                 !.fails = IF ok THEN @ ELSE @ - 1]
    /\ UNCHANGED coilFrame

CoilBLow == CoilGpio("B", 0, "b_low", "a_high")
CoilAHigh == CoilGpio("A", 1, "a_high", "hold")

\* sleep(HOLD_TIME_SEC);
CoilHold ==
    /\ coil.at = "hold"
    /\ CoilGoto("a_low")
    /\ UNCHANGED coilFrame

CoilALow == CoilGpio("A", 0, "a_low", "b_high")
CoilBHigh == CoilGpio("B", 1, "b_high", "reset")

\* count = 0;  (end of the trigger handling)
CoilReset ==
    /\ coil.at = "reset"
    /\ coil' = [coil EXCEPT !.at = "usleep", !.count = 0, !.run = 0,
                            !.triggers = @ + 1]
    /\ UNCHANGED coilFrame

\* usleep(SAMPLE_US);
CoilSleep ==
    /\ coil.at = "usleep"
    /\ CoilGoto("read")
    /\ UNCHANGED coilFrame

CoilNext ==
    \/ CoilPrep \/ CoilIndex0 \/ CoilMjpg \/ CoilAdcOpen \/ CoilScale
    \/ CoilInitA \/ CoilInitB \/ CoilRead \/ CoilBurst \/ CoilAttempt
    \/ CoilElapsed \/ CoilIndex \/ CoilBLow \/ CoilAHigh \/ CoilHold
    \/ CoilALow \/ CoilBHigh \/ CoilReset \/ CoilSleep

\* main() at its first statement: the pins are not driven yet (-1), the
\* folder may hold the images and the page of an earlier run
CoilStart(old) ==
    [at |-> "prep", caller |-> "main", count |-> 0, run |-> 0, triggers |-> 0,
     A |-> -1, B |-> -1, scale |-> DefaultScale,
     total |-> 0, total0 |-> 0, saved |-> 0, ret |-> 0, attempts |-> 0,
     files |-> 0 .. (old - 1), index |-> old, over |-> FALSE,
     el |-> 0, dur |-> 0, fails |-> MaxFails]

CoilInit ==
    /\ \E old \in {0, 2} : coil = CoilStart(old)
    /\ CamIdle
    /\ http = HttpIdle /\ fix = FixIdle /\ filt = FiltIdle

CoilSpec == CoilInit /\ [][CoilNext]_vars

\* capture_snapshots called on its own, with any duration and with some
\* images already saved
Durations == {0, 1, SNAPSHOT_INTERVAL_US, HOLD_TIME_US}
BurstNext == CoilBurst \/ CoilAttempt \/ CoilElapsed \/ CoilIndex
BurstInit ==
    /\ \E d \in Durations, n \in {0, 3}, f \in 0 .. MaxFails :
         coil = [CoilStart(n) EXCEPT !.at = "burst", !.caller = "test",
                                     !.dur = d, !.total = n, !.fails = f,
                                     !.A = 0, !.B = 1]
    /\ CamIdle
    /\ http = HttpIdle /\ fix = FixIdle /\ filt = FiltIdle
BurstSpec == BurstInit /\ [][BurstNext]_vars

\* ------------------------------------------------ http_get_snapshot_save
\* char header[8192];  char buf[4096];
HeaderSize == 8192
BufSize == 4096

\* the response of the server: the length of its header (the bytes up to and
\* including the first "\r\n\r\n"), the number of body bytes it sends before
\* it closes, and the value of its Content-Length line (-1: no such line);
\* the body is a JPEG image, so its first byte is not 0
HeaderLens == {150, 5000, HeaderSize, 9000}
BodyLens == {0, 1000, 5000}
ContentLengths == {-1, 0, 1000, 5000}

\* what read(sock, buf, sizeof(buf)) may return when bytes are left
ReadSizes == {100, 1000, BufSize}

Min(x, y) == IF x < y THEN x ELSE y

HttpReturn(r, why) == http' = [http EXCEPT !.at = "done", !.ret = r, !.why = why]

\* socket(), inet_pton(), connect(): each failure returns -1
HttpConnect ==
    /\ http.at = "connect"
    /\ \/ HttpReturn(-1, "connect")
       \/ http' = [http EXCEPT !.at = "request"]
    /\ UNCHANGED <<camVars, coil, fix, filt>>

\* if (write(sock, req, rl) != rl) { close(sock); return -1; }
HttpRequest ==
    /\ http.at = "request"
    /\ \/ HttpReturn(-1, "request")
       \/ http' = [http EXCEPT !.at = "header"]
    /\ UNCHANGED <<camVars, coil, fix, filt>>

\* the reads that are possible now: 0 stands for a read that returns 0 (the
\* server has closed) or less (an error)
Reads ==
    {0} \cup {Min(n, http.H + http.B - http.sent) : n \in
                 IF http.sent < http.H + http.B THEN ReadSizes ELSE {}}

\* if (have_len) { while (content_length > 0) .. } else { while (read > 0) .. }
BodyStart(w, have_len) == IF have_len THEN "body_len" ELSE "body_eof"

\* one pass of  while (!header_done && (n = read(..)) > 0) : the copy into
\* header (cut at its end), the search for "\r\n\r\n" and, when it is found:
\* header[i+1] = '\0' (outside the array when the header fills it; inside
\* it, on the first body byte, when body bytes came with the header),
\* Content-Length, fopen (return -1 when it fails) and the fwrite of the
\* body bytes that are in header
HttpHeaderRead ==
    /\ http.at = "header"
    /\ \E n \in Reads :
         LET copy == Min(n, HeaderSize - http.hpos)
             hpos == http.hpos + copy
             body0 == hpos - http.H
             have_len == http.cl >= 0
             w == IF have_len THEN Min(body0, http.cl) ELSE body0
         IN  IF n = 0
             THEN HttpReturn(-1, "eof")
             ELSE IF http.H <= hpos
             THEN \/ /\ http.H = HeaderSize
                     /\ http' = [http EXCEPT !.at = "undefined"]
                  \/ HttpReturn(-1, "fopen")
                  \/ http' = [http EXCEPT
                        !.at = BodyStart(w, have_len),
                        !.sent = @ + n, !.hpos = hpos,
                        !.have_len = have_len,
                        !.content_length = IF have_len THEN http.cl - w ELSE 0,
                        !.file = w,
                        !.nul = w > 0,
                        !.lost = n - copy]
             ELSE IF hpos = HeaderSize
             THEN HttpReturn(-1, "header")
             ELSE http' = [http EXCEPT !.sent = @ + n, !.hpos = hpos]
    /\ UNCHANGED <<camVars, coil, fix, filt>>

\* while (content_length > 0) { n = read(..); if (n <= 0) break;
\* w = min(n, content_length); fwrite(buf, 1, w, fp); content_length -= w; }
HttpBodyLen ==
    /\ http.at = "body_len"
    /\ IF http.content_length = 0
       THEN http' = [http EXCEPT !.at = "finish"]
       ELSE \E n \in Reads :
              IF n = 0
              THEN http' = [http EXCEPT !.at = "finish"]
              ELSE http' = [http EXCEPT
                      !.sent = @ + n,
                      !.file = @ + Min(n, http.content_length),
                      !.content_length = @ - Min(n, http.content_length)]
    /\ UNCHANGED <<camVars, coil, fix, filt>>

\* while ((n = read(sock, buf, sizeof(buf))) > 0) fwrite(buf, 1, n, fp);
HttpBodyEof ==
    /\ http.at = "body_eof"
    /\ \E n \in Reads :
         IF n = 0
         THEN http' = [http EXCEPT !.at = "finish"]
         ELSE http' = [http EXCEPT !.sent = @ + n, !.file = @ + n]
    /\ UNCHANGED <<camVars, coil, fix, filt>>

\* fclose(fp); close(sock); return 0;
HttpFinish ==
    /\ http.at = "finish"
    /\ HttpReturn(0, "saved")
    /\ UNCHANGED <<camVars, coil, fix, filt>>

HttpNext ==
    \/ HttpConnect \/ HttpRequest \/ HttpHeaderRead
    \/ HttpBodyLen \/ HttpBodyEof \/ HttpFinish

\* the call of http_get_snapshot_save: out_path does not exist (file = -1)
HttpInit ==
    /\ \E h \in HeaderLens, body \in BodyLens, cl \in ContentLengths :
         http = [at |-> "connect", H |-> h, B |-> body, cl |-> cl, sent |-> 0,
                 hpos |-> 0, have_len |-> FALSE, content_length |-> 0,
                 file |-> -1, nul |-> FALSE, lost |-> 0,
                 ret |-> 1, why |-> "none"]
    /\ CamIdle
    /\ coil = CoilIdle /\ fix = FixIdle /\ filt = FiltIdle

HttpSpec == HttpInit /\ [][HttpNext]_vars

\* ------------------------------------------------ Fixture_Tester main.c
\* HAL_GetTick() is a uint32_t that wraps; a tick is kept as its two 16-bit
\* halves <<high, low>>
Half == 65536

\* HAL_Delay(20);   .. - capture_tick > 500   .. - capture_tick > 1000
DebounceTicks == 20
WaitTicks == 500
CaptureTicks == 1000

\* the ticks that may pass between two steps of the main loop, and the most
\* that is let pass after capture_tick was recorded
TickSteps == {200, 400}
TickCap == 2 * CaptureTicks
StartTicks == {<<0, 0>>, <<Half - 1, Half - 700>>}

\* the tick d ticks later (d below 65536), in uint32_t
TickAdd(tick, d) ==
    <<(tick[1] + (tick[2] + d) \div Half) % Half, (tick[2] + d) % Half>>

\* variant: the tick itself is compared, not the difference
Elapsed_Tick(tick, capture_tick) == tick

\* HAL_GetTick() - capture_tick, in uint32_t
Elapsed(tick, capture_tick) ==
    <<(tick[1] - capture_tick[1]
         - (IF tick[2] < capture_tick[2] THEN 1 ELSE 0)) % Half,
      (tick[2] - capture_tick[2]) % Half>>

\* e > n for a uint32_t e and n below 65536
Over(e, n) == e[1] > 0 \/ e[2] > n

FixGoto(a) == fix' = [fix EXCEPT !.at = a]
fixFrame == <<camVars, coil, http, filt>>

\* the key goes down or up
FixKey ==
    /\ fix.at # "idle"
    /\ \/ /\ fix.key = 0 /\ fix.presses < MaxPresses
          /\ fix' = [fix EXCEPT !.key = 1, !.presses = @ + 1]
       \/ /\ fix.key = 1
          /\ fix' = [fix EXCEPT !.key = 0]
    /\ UNCHANGED fixFrame

\* the tick interrupt: time passes
FixTime ==
    /\ fix.at # "idle"
    /\ fix.current_state \in {"STATE_WAIT_FOR_2S", "STATE_CAPTURE_R"}
    /\ \E d \in TickSteps :
         /\ fix.since + d <= TickCap
         /\ fix' = [fix EXCEPT !.tick = TickAdd(@, d), !.since = @ + d]
    /\ UNCHANGED fixFrame

\* HAL_ADC_ConvCpltCallback: adc_ready = 1;
ConvCplt ==
    /\ fix.at # "idle"
    /\ fix' = [fix EXCEPT !.adc_ready = 1]
    /\ UNCHANGED fixFrame

\* if (current_state == STATE_IDLE) { welcome screen once;
\* if (HAL_GPIO_ReadPin(KEY_C) == GPIO_PIN_SET) { HAL_Delay(20); ..
FixIdleRead ==
    /\ fix.at = "idle_blk"
    /\ IF fix.current_state # "STATE_IDLE"
       THEN FixGoto("done_blk")
       ELSE fix' = [fix EXCEPT
               !.show_welcome_flag = 0,
               !.read1 = fix.key,
               !.tick = IF fix.key = 1 THEN TickAdd(@, DebounceTicks) ELSE @,
               !.at = IF fix.key = 1 THEN "idle_2nd" ELSE "done_blk"]
    /\ UNCHANGED fixFrame

\* current_state = STATE_WAIT_FOR_2S;
AfterIdle == "STATE_WAIT_FOR_2S"

\* if (HAL_GPIO_ReadPin(KEY_C) == GPIO_PIN_SET) { OLED_Clear(); UI_Init();
\* capture_tick = HAL_GetTick(); current_state = STATE_WAIT_FOR_2S; while (..); }
FixIdleSecond ==
    /\ fix.at = "idle_2nd"
    /\ IF fix.key = 1
       THEN fix' = [fix EXCEPT !.capture_tick = fix.tick, !.since = 0,
                               !.current_state = AfterIdle,
                               !.at = "idle_rel"]
       ELSE FixGoto("done_blk")
    /\ UNCHANGED fixFrame

\* while (HAL_GPIO_ReadPin(KEY_C_GPIO_Port, KEY_C_Pin) == GPIO_PIN_SET);
FixRelease(from, to) ==
    /\ fix.at = from
    /\ fix.key = 0
    /\ FixGoto(to)
    /\ UNCHANGED fixFrame

FixIdleRelease == FixRelease("idle_rel", "done_blk")

\* if (current_state == STATE_DONE) {
\* if (HAL_GPIO_ReadPin(KEY_C) == GPIO_PIN_SET) { HAL_Delay(20); ..
FixDoneRead ==
    /\ fix.at = "done_blk"
    /\ IF fix.current_state # "STATE_DONE"
       THEN FixGoto("adc_blk")
       ELSE fix' = [fix EXCEPT
               !.read1 = fix.key,
               !.tick = IF fix.key = 1 THEN TickAdd(@, DebounceTicks) ELSE @,
               !.at = IF fix.key = 1 THEN "done_2nd" ELSE "adc_blk"]
    /\ UNCHANGED fixFrame

\* if (HAL_GPIO_ReadPin(KEY_C) == GPIO_PIN_SET) { current_state = STATE_IDLE;
\* show_welcome_flag = 1; while (..); }
FixDoneSecond ==
    /\ fix.at = "done_2nd"
    /\ IF fix.key = 1
       THEN fix' = [fix EXCEPT !.current_state = "STATE_IDLE",
                               !.show_welcome_flag = 1,
                               !.at = "done_rel"]
       ELSE FixGoto("adc_blk")
    /\ UNCHANGED fixFrame

FixDoneRelease == FixRelease("done_rel", "adc_blk")

\* variant: the relay pins are left as they are
RelayAfter_Keep(level, value) == level

\* HAL_GPIO_WritePin(R_C_GPIO_Port, R_C_Pin, value);
\* HAL_GPIO_WritePin(T_C_GPIO_Port, T_C_Pin, value);
RelayAfter(level, value) == value

\* if (adc_ready) { adc_ready = 0; the four values are converted and
\* filtered; if (current_state == STATE_WAIT_FOR_2S && HAL_GetTick() -
\* capture_tick > 500) { .. relays on, capture_tick = HAL_GetTick();
\* current_state = STATE_CAPTURE_R; } else if (current_state ==
\* STATE_CAPTURE_R && HAL_GetTick() - capture_tick > 1000) { .. relays off,
\* verdict shown, current_state = STATE_DONE; } }
FixAdc ==
    /\ fix.at = "adc_blk"
    /\ IF fix.adc_ready = 0
       THEN FixGoto("idle_blk")
       ELSE IF /\ fix.current_state = "STATE_WAIT_FOR_2S"
               /\ Over(Elapsed(fix.tick, fix.capture_tick), WaitTicks)
       THEN fix' = [fix EXCEPT !.adc_ready = 0,
                               !.R_C = RelayAfter(@, 1), !.T_C = RelayAfter(@, 1),
                               !.capture_tick = fix.tick, !.since = 0,
                               !.current_state = "STATE_CAPTURE_R",
                               !.at = "idle_blk"]
       ELSE IF /\ fix.current_state = "STATE_CAPTURE_R"
               /\ Over(Elapsed(fix.tick, fix.capture_tick), CaptureTicks)
       THEN fix' = [fix EXCEPT !.adc_ready = 0,
                               !.R_C = RelayAfter(@, 0), !.T_C = RelayAfter(@, 0),
                               !.current_state = "STATE_DONE",
                               !.at = "idle_blk"]
       ELSE fix' = [fix EXCEPT !.adc_ready = 0, !.at = "idle_blk"]
    /\ UNCHANGED fixFrame

FixNext ==
    \/ FixKey \/ FixTime \/ ConvCplt
    \/ FixIdleRead \/ FixIdleSecond \/ FixIdleRelease
    \/ FixDoneRead \/ FixDoneSecond \/ FixDoneRelease \/ FixAdc

\* main() at its while (1): the ADC runs, both relay pins were written low
FixInit ==
    /\ \E t \in StartTicks :
         fix = [at |-> "idle_blk", current_state |-> "STATE_IDLE",
                capture_tick |-> <<0, 0>>, tick |-> t, since |-> 0,
                adc_ready |-> 0, key |-> 0, presses |-> 0, read1 |-> 0,
                R_C |-> 0, T_C |-> 0, show_welcome_flag |-> 1]
    /\ CamIdle
    /\ coil = CoilIdle /\ http = HttpIdle /\ filt = FiltIdle

FixSpec == FixInit /\ [][FixNext]_vars

\* ------------------------------------------------------ filter_average
\* #define FILTER_DEPTH 16
FILTER_DEPTH == 16

\* the samples fed (whole numbers, on which the double arithmetic of the
\* function is exact) and the number of calls looked at
Samples == {-3, 5}
MaxCalls == FILTER_DEPTH + 2

\* variant: the entry that is overwritten is not taken out of the sum
SumAfter_Add(sum, old, new_val) == sum + new_val

\* *sum -= buf[*idx]; .. *sum += new_val;
SumAfter(sum, old, new_val) == (sum - old) + new_val

\* *idx = (*idx + 1) % FILTER_DEPTH;
IdxAfter(idx) == (idx + 1) % FILTER_DEPTH

\* one call filter_average(new_val, buf, &sum, &idx); buf[k] of the code is
\* buf[k + 1] here; the value returned, *sum / FILTER_DEPTH, is kept as the
\* fraction <<*sum, FILTER_DEPTH>>
FilterAverage ==
    /\ filt.at = "ready"
    /\ Len(filt.fed) < MaxCalls
    /\ \E new_val \in Samples :
         LET sum == SumAfter(filt.sum, filt.buf[filt.idx + 1], new_val)
         IN  filt' = [filt EXCEPT
                 !.buf = [@ EXCEPT ![filt.idx + 1] = new_val],
                 !.sum = sum,
                 !.idx = IdxAfter(@),
                 !.ret = <<sum, FILTER_DEPTH>>,
                 !.fed = Append(@, new_val)]
    /\ UNCHANGED <<camVars, coil, http, fix>>

FilterNext == FilterAverage

\* double tx_R_buf[FILTER_DEPTH]={0}; double tx_R_sum=0; int tx_R_idx=0;
FilterInit ==
    /\ filt = [at |-> "ready", buf |-> [k \in 1 .. FILTER_DEPTH |-> 0],
               sum |-> 0, idx |-> 0, ret |-> <<0, FILTER_DEPTH>>, fed |-> <<>>]
    /\ CamIdle
    /\ coil = CoilIdle /\ http = HttpIdle /\ fix = FixIdle

FilterSpec == FilterInit /\ [][FilterNext]_vars

\* ------------------------------------------------------------ properties
Has(tag) == \E i \in 1 .. Len(iterLog) : iterLog[i] = tag
Last(s) == s[Len(s)]
TestTags == {"test_set", "test_clear"}

\* C1: each pool buffer of each camera is in exactly one of the states queued
\* or dequeued (no buffer is queued twice, none outside the pool), and every
\* VIDIOC_QBUF the main loop issues is for a buffer it currently holds dequeued.
C1_RequeueOnlyHeld ==
    /\ \A c \in Cams :
         /\ Range(drvq[c]) \subseteq BufIdx
         /\ Cardinality(Range(drvq[c])) = Len(drvq[c])
    /\ pc = "q1" => BufState(1, b[1]) = "dequeued"
    /\ pc = "q2" => BufState(2, b[2]) = "dequeued"
    /\ pc = "cap_q1" => BufState(1, cap[1]) = "dequeued"
    /\ pc = "cap_q2" => BufState(2, cap[2]) = "dequeued"

PreviewLog == <<"dq1_ok", "dq2_ok", "draw1", "draw2", "q1", "q2">>
PreviewDone == pc = "check" /\ iterLog = PreviewLog

\* C3: whatever dequeue/requeue calls failed, once the failures are over the
\* main loop again and again completes a preview update (unless the process
\* has exited).
C3_PreviewResumes == []<>(PreviewDone \/ pc = "exited")

\* C4: photo_flag goes 0 -> 1 only in the listener's handling of an event of
\* type EV_KEY with value 1, and goes to 0 only by the main loop's clear at
\* the end of a trigger branch that was entered on reading the flag as set.
C4_FlagWriters ==
    [][photo_flag' # photo_flag =>
          \/ /\ photo_flag' = 1
             /\ lpc = "handle" /\ ev.type = "EV_KEY" /\ ev.value = 1
             /\ pc' = pc
          \/ /\ photo_flag' = 0
             /\ pc = "clear" /\ Has("test_set") /\ Last(iterLog) = "cap_q2"
             /\ lpc' = lpc]_vars

\* the flag has been set and cleared, and the listener holds a repeat event
C4_Witness ==
    /\ sets >= 1 /\ clears >= 1 /\ photo_flag = 0
    /\ lpc = "handle" /\ ev.type = "EV_KEY" /\ ev.value = 2

\* C5: a press processed while the main loop is inside the trigger branch
\* yields no capture of its own, and the flag is set only if a press was
\* processed after the last clear.
C5_AtMostOnePending ==
    /\ captures + handlingPresses <= presses
    /\ photo_flag = 1 => pressedSinceClear

\* a press arrived during trigger handling and was wiped by the clear
C5_Witness == handlingPresses >= 1 /\ clears >= 1 /\ photo_flag = 0 /\ pc = "sleep"

\* C6: there are never more capture events than processed presses; every
\* capture consumed its own 0 -> 1 change of the flag, and captures and
\* clears alternate.
C6_NoExtraCapture ==
    /\ captures <= presses
    /\ captures <= sets
    /\ clears <= captures
    /\ captures <= clears + 1

\* a trigger was lost: two presses, one capture, nothing pending
C6_Witness == presses >= 2 /\ captures = 1 /\ clears = 1 /\ photo_flag = 0 /\ lpc = "read"

\* C7: when no press is processed while the flag is still set, every press
\* sets the flag, the main loop clears it between consecutive sets, and each
\* set is consumed by exactly one capture.
C7_EdgeBehaviour ==
    latePresses = 0 =>
        /\ sets = presses
        /\ photo_flag = 1 => sets = clears + 1
        /\ photo_flag = 0 => sets = clears
        /\ pc \in HandlingPcs => captures = sets
        /\ pc \notin HandlingPcs => captures = clears

\* two presses, each consumed before the next: two sets, two clears, two captures
C7_Witness ==
    /\ latePresses = 0 /\ presses = 2
    /\ sets = 2 /\ clears = 2 /\ captures = 2 /\ photo_idx = 2

\* a VIDIOC_DQBUF that can never return: nothing is queued and nothing fails
DequeueBlocked ==
    \/ pc \in {"dq1", "cap_dq1"} /\ drvq[1] = <<>> /\ failsLeft = 0
    \/ pc \in {"dq2", "cap_dq2"} /\ drvq[2] = <<>> /\ failsLeft = 0

\* C8: once the flag is set, the main loop (as long as its dequeue calls
\* return) eventually clears it at the end of a capture event.
C8_FlagEventuallyCleared == (photo_flag = 1) ~> (photo_flag = 0 \/ DequeueBlocked)

\* a set flag has been consumed and the loop went on
C8_Witness == sets >= 1 /\ clears = sets /\ photo_flag = 0 /\ pc = "dq1"

\* what step 1 can have done when the flag is tested
Step1Logs == {<<"dq1_fail">>, <<"dq1_ok", "dq2_fail">>, PreviewLog}
IsPrefix(s, t) == Len(s) <= Len(t) /\ SubSeq(t, 1, Len(s)) = s

\* C9: when the flag is tested, step 1 is over: the dequeue was attempted and,
\* if both dequeues succeeded, both panes were composited and both buffers
\* requeued; every action of the trigger branch comes after the test.
C9_PreviewBeforeTrigger ==
    /\ pc = "check" => iterLog \in Step1Logs
    /\ pc \in TriggerPcs \cup {"sleep"} =>
          \E s \in Step1Logs : /\ IsPrefix(s, iterLog)
                               /\ Len(iterLog) > Len(s)
                               /\ iterLog[Len(s) + 1] \in TestTags

\* the trigger branch was entered after a complete preview update
C9_Witness == pc = "cap_dq1" /\ IsPrefix(PreviewLog, iterLog)

\* the order of the trigger branch
BranchPattern ==
    << {"cap_dq1_ok", "cap_dq1_fail"}, {"cap_dq2_ok", "cap_dq2_fail"},
       {"enc1_ok", "enc1_fail"}, {"enc2_ok", "enc2_fail"},
       {"cap_q1"}, {"cap_q2"}, {"clear"}, {"inc"} >>

\* the index the current iteration's capture uses for its file names
CaptureIdx == IF Has("inc") THEN photo_idx - 1 ELSE photo_idx

\* C10: a trigger branch runs dequeue left, dequeue right, encode left, encode
\* right, requeue left, requeue right, clear flag, increment counter, in this
\* order and completely; the encodes write the files named by the counter's
\* value at that time, and the counter has advanced exactly when "inc" ran.
C10_BranchOrder ==
    \A i \in 1 .. Len(iterLog) :
        iterLog[i] = "test_set" =>
            /\ Len(iterLog) - i <= 8
            /\ \A j \in 1 .. (Len(iterLog) - i) : iterLog[i + j] \in BranchPattern[j]
            /\ pc = "sleep" => Len(iterLog) - i = 8
            /\ photo_idx = clears - (IF Has("clear") /\ ~Has("inc") THEN 1 ELSE 0)
            /\ Has("enc1_ok") => <<1, CaptureIdx>> \in files
            /\ Has("enc2_ok") => <<2, CaptureIdx>> \in files
            /\ \A f \in files : f[2] <= CaptureIdx

\* a complete capture event with both images written
C10_Witness == pc = "sleep" /\ Has("inc") /\ Has("enc1_ok") /\ Has("enc2_ok")

\* C11: photo_idx starts at 0 and changes only by the increment that ends a
\* trigger branch, by exactly 1; so it equals the number of completed branches.
C11_CounterMonotone ==
    /\ photo_idx = 0
    /\ [][/\ photo_idx' # photo_idx =>
               /\ photo_idx' = photo_idx + 1
               /\ pc = "inc" /\ Last(iterLog) = "clear"
               /\ lpc' = lpc
          /\ pc' # "exited" =>
               photo_idx' = captures' - (IF pc' \in TriggerPcs THEN 1 ELSE 0)]_vars

\* two capture events are complete
C11_Witness == photo_idx = 2 /\ captures = 2 /\ pc = "dq1"

\* C12: the k-th capture event (k counted from 0) encodes to <<left, k>> and
\* <<right, k>>; neither path exists before the event, and no file carries an
\* index that no event has used.
C12_FileNames ==
    /\ pc \in TriggerPcs => photo_idx = captures - 1
    /\ pc \in {"cap_dq1", "cap_dq2", "enc1"} => \A c \in Cams : <<c, photo_idx>> \notin files
    /\ pc = "enc2" => <<2, photo_idx>> \notin files
    /\ \A f \in files : f[1] \in Cams /\ f[2] \in 0 .. (captures - 1)

\* two events have written their four files
C12_Witness == pc = "sleep" /\ files = {<<1, 0>>, <<2, 0>>, <<1, 1>>, <<2, 1>>}

\* a side of the current capture event failed: its dequeue or its encode
SideFailed(c) ==
    IF c = 1 THEN Has("cap_dq1_fail") \/ Has("enc1_fail")
             ELSE Has("cap_dq2_fail") \/ Has("enc2_fail")
SideEncoded(c) == IF c = 1 THEN Has("enc1_ok") ELSE Has("enc2_ok")

\* C13: when the dequeue or the encode of one side fails in a capture event,
\* that side has no file with the event's index, the other side's file is
\* kept, and the event still ends with the flag cleared and the counter
\* advanced by 1.
C13_NoRollback ==
    Has("test_set") =>
        /\ \A c \in Cams : SideFailed(c) => <<c, CaptureIdx>> \notin files
        /\ \A c \in Cams : SideEncoded(c) /\ ~SideFailed(c) => <<c, CaptureIdx>> \in files
        /\ pc = "sleep" => Has("clear") /\ Has("inc") /\ photo_idx = CaptureIdx + 1

\* C14: the buffer whose memory is handed to draw_on_lcd or to yuyv_to_jpeg
\* is application-owned (dequeued) when the call is made.
C14_ReadsOnlyDequeued ==
    /\ pc = "draw1" => BufState(1, b[1]) = "dequeued"
    /\ pc = "draw2" => BufState(2, b[2]) = "dequeued"
    /\ pc = "enc1" => BufState(1, cap[1]) = "dequeued"
    /\ pc = "enc2" => BufState(2, cap[2]) = "dequeued"

\* C15: once the listener has returned after a failed read it stays
\* terminated, no press is processed and the flag is never set again; a
\* capture can then only start from the flag that was already set; the
\* termination itself changes nothing of the main loop, which goes on
\* iterating (unless a dequeue never returns).
C15_ListenerDeath ==
    /\ [][lpc = "dead" =>
            /\ lpc' = "dead"
            /\ photo_flag' <= photo_flag
            /\ presses' = presses
            /\ photo_flag = 0 => captures' = captures]_vars
    /\ [][lpc # "dead" /\ lpc' = "dead" =>
            UNCHANGED <<pc, photo_flag, photo_idx, drvq, b, cap, fb, files, iterLog>>]_vars
    /\ (lpc = "dead") ~> (pc = "sleep" \/ DequeueBlocked)

\* the listener is gone and the one pending trigger is being handled
C15_Witness == lpc = "dead" /\ photo_flag = 1 /\ pc = "enc1" /\ presses = 1

\* the outcome of the call for side c was a failure
EncFailed(c) == enc.res[c] \in {"malloc_fail", "fopen_fail"}

\* C18: a yuyv_to_jpeg call that fails (no scratch buffer, or the output
\* path cannot be opened) has printed a diagnostic for its side, has written
\* no image, holds no scratch buffer once it has returned, and is the only
\* call for its side in the event.
C18_EncoderFailureReported ==
    /\ \A c \in Cams :
         EncFailed(c) => /\ <<"fopen", c>> \in diag
                         /\ <<c, photo_idx>> \notin files
                         /\ enc.calls[c] = 1
    /\ enc.at \in {"main", "ret", "printf", "done"} => rgbLive = 0
    /\ \A c \in Cams : enc.calls[c] <= 1

SetupSoFar ==
    /\ spc.at \in {"fb_info", "fb_mmap"} => dev.fb = "open"
    /\ spc.c >= 1 => dev.fb = "mapped"
    /\ spc.c = 2 => dev.cam[1] = CamReady /\ drvq[1] = <<0, 1>>
    /\ spc.at \in {"thread", "loop"} => dev.cam[2] = CamReady /\ drvq[2] = <<0, 1>>
    /\ spc.c >= 1 /\ spc.at \notin {"thread", "loop"} =>
         LET k == dev.cam[spc.c] IN
         /\ k.fd = (spc.at # "cam_open")
         /\ k.fmt = (spc.at \notin {"cam_open", "s_fmt"})
         /\ ~k.streaming
         /\ k.mapped = {j \in BufIdx : j < spc.i \/ (j = spc.i /\ spc.at = "qbuf")}
         /\ drvq[spc.c] = [j \in 1 .. spc.i |-> j - 1]

\* C16: the main loop runs only with the display surface mapped and both
\* cameras open, formatted, with both buffers mapped and streaming; it is
\* entered from the last startup statement with both buffers of each camera
\* queued; a startup statement is reached only after all earlier ones
\* succeeded, and the exit a failure causes is final.
C16_LoopNeedsSetup ==
    /\ [](pc \notin {"setup", "exited"} =>
            dev.fb = "mapped" /\ \A c \in Cams : dev.cam[c] = CamReady)
    /\ [](pc = "setup" => SetupSoFar)
    /\ [][pc = "setup" /\ pc' \notin {"setup", "exited"} =>
            /\ spc.at = "thread" /\ pc' = "dq1"
            /\ \A c \in Cams : drvq'[c] = <<0, 1>> /\ held'[c] = 0]_vars
    /\ [][pc = "exited" => pc' = "exited"]_vars

\* the first loop iteration starts after a complete setup
C16_Witness ==
    /\ pc = "dq1" /\ iterLog = <<>> /\ captures = 0
    /\ dev = DevReady /\ lpc = "open"

\* VIDIOC_REQBUFS of camera c has returned
ReqDone(c) ==
    \/ spc.c > c
    \/ spc.c = c /\ spc.at \notin {"cam_open", "s_fmt", "reqbufs"}

\* C17: a camera that was granted fewer than 2 buffers never gets past the
\* buffer loop of its setup: it is never streaming, no index at or above the
\* grant is mapped or queued, and the main loop is never entered.
C17_FewerBuffersAbort ==
    \A c \in Cams :
        ReqDone(c) /\ dev.cam[c].granted < NumBufs =>
            /\ pc \in {"setup", "exited"}
            /\ spc.c = c
            /\ spc.at \in {"for_test", "querybuf", "mmap", "qbuf"}
            /\ spc.i <= dev.cam[c].granted
            /\ ~dev.cam[c].streaming
            /\ Len(drvq[c]) <= dev.cam[c].granted

\* the right camera got one buffer and setup ended at the query of index 1
C17_Witness ==
    /\ pc = "exited" /\ spc.c = 2 /\ spc.at = "querybuf" /\ spc.i = 1
    /\ dev.cam[2].granted = 1 /\ drvq[2] = <<0>>

\* C20: every destination pixel of every surface maps to a source pixel
\* inside the 640 x 480 frame, in an even column, so that the three bytes
\* read for it lie inside the frame's 640 * 480 * 2 bytes.
C20_SourceInBounds ==
    cm.at = "read" =>
        /\ cm.src_x \in 0 .. (WIDTH - 1)
        /\ cm.src_y \in 0 .. (HEIGHT - 1)
        /\ cm.src_x % 2 = 0
        /\ Idx(cm.src_x, cm.src_y) >= 0
        /\ Idx(cm.src_x, cm.src_y) + 3 < WIDTH * HEIGHT * 2

\* the claim's own arithmetic: floor of n / 256 and saturation to a byte
Floor256(n) == (n - (n % 256)) \div 256
SatByte(n) == IF n < 0 THEN 0 ELSE IF n > 255 THEN 255 ELSE n

\* C22: for the bytes Y, U, V read for a pixel, R = clamp((298(Y-16) +
\* 409(V-128) + 128) >> 8), G = clamp((298(Y-16) - 100(U-128) - 208(V-128) +
\* 128) >> 8), B = clamp((298(Y-16) + 516(U-128) + 128) >> 8) are in 0 .. 255
\* and the word written has 0xFF in bits 24-31, R in bits 16-23, G in bits
\* 8-15 and B in bits 0-7.
C22_PixelFormat ==
    px.at = "out" =>
        LET R == SatByte(Floor256(298 * (px.y0 - 16) + 409 * (px.v - 128) + 128))
            G == SatByte(Floor256(298 * (px.y0 - 16) - 100 * (px.u - 128)
                                  - 208 * (px.v - 128) + 128))
            B == SatByte(Floor256(298 * (px.y0 - 16) + 516 * (px.u - 128) + 128))
        IN /\ R \in 0 .. 255 /\ G \in 0 .. 255 /\ B \in 0 .. 255
           /\ px.word.hi \div 256 = 255
           /\ px.word.hi % 256 = R
           /\ px.word.lo \div 256 = G
           /\ px.word.lo % 256 = B

\* a pixel whose red saturates at 255 while green and blue do not
C22_Witness ==
    /\ px.at = "out" /\ px.y0 = 255 /\ px.u = 0 /\ px.v = 255
    /\ px.word = [hi |-> 65535, lo |-> 225 * 256 + 20]

\* pixel n (from 0) of a buffer of R, G, B bytes
PixelAt(buf, n) == <<buf[3 * n + 1], buf[3 * n + 2], buf[3 * n + 3]>>

\* C24: in the encoder's rgb buffer, for every converted 4-byte group k
\* (Y0 U Y1 V) pixel 2k is what the compositor's conversion gives for
\* (Y0, U, V) and pixel 2k+1 what it gives for (Y1, U, V); two pixels are
\* produced per group, and width * height pixels when the loop has ended.
C24_SameConversion ==
    rgb.at # "idle" =>
        /\ Len(rgb.out) = 3 * (rgb.i \div 2)
        /\ \A k \in 0 .. ((rgb.i \div 4) - 1) :
             /\ PixelAt(rgb.out, 2 * k) =
                    DrawRGB(FrameByte(rgb.frame, 4 * k),
                            FrameByte(rgb.frame, 4 * k + 1),
                            FrameByte(rgb.frame, 4 * k + 3))
             /\ PixelAt(rgb.out, 2 * k + 1) =
                    DrawRGB(FrameByte(rgb.frame, 4 * k + 2),
                            FrameByte(rgb.frame, 4 * k + 1),
                            FrameByte(rgb.frame, 4 * k + 3))
        /\ rgb.at = "done" => Len(rgb.out) = 3 * rgb.w * rgb.h

\* a 4 x 2 frame of changing bytes has been converted: 8 pixels, the first
\* two of them different
C24_Witness ==
    /\ rgb.at = "done" /\ rgb.w = 4 /\ rgb.h = 2 /\ rgb.frame.step = 37
    /\ Len(rgb.out) = 24
    /\ PixelAt(rgb.out, 0) # PixelAt(rgb.out, 1)

\* the rows the call of one side has gone through
RowsDone(side) ==
    IF lcd.at = "done" \/ (lcd.at = "right" /\ side = "left")
    THEN 0 .. (lcd.fb_h - 1) ELSE {}

\* the columns the claim gives the call of one side
ColsOf(side) ==
    LET off == XOffset(side, lcd.fb_w)
    IN off .. (off + lcd.fb_w \div 2 - 1)

\* C21: a call writes each pixel at columns x_offset .. x_offset + fb_w/2 - 1
\* of rows 0 .. fb_h - 1 exactly once and writes no other pixel;
\* a pixel neither call has written still holds what it held before; the
\* columns of the left call and of the right call are disjoint.
C21_WritesOwnHalf ==
    lcd.at # "idle" =>
        /\ \A side \in {"left", "right"} :
             \A r \in DOMAIN lcd.mem : \A c \in DOMAIN lcd.mem[r] :
                lcd.hits[side][r][c] =
                    IF r \in RowsDone(side) /\ c \in ColsOf(side) THEN 1 ELSE 0
        /\ \A r \in DOMAIN lcd.mem : \A c \in DOMAIN lcd.mem[r] :
                IF lcd.hits.left[r][c] = 0 /\ lcd.hits.right[r][c] = 0
                THEN lcd.mem[r][c] = Prior(r, c)
                ELSE lcd.mem[r][c].hi \div 256 = 255
        /\ ColsOf("left") \cap ColsOf("right") = {}

\* both calls have returned on a 7 x 3 surface with a padded row: six
\* columns written, the seventh and the padding not
C21_Witness ==
    /\ lcd.at = "done" /\ lcd.fb_w = 7 /\ lcd.fb_h = 3 /\ lcd.stride = 32
    /\ lcd.frame.left = FrameRamp /\ lcd.frame.right = FrameB
    /\ lcd.hits.left[2][2] = 1 /\ lcd.hits.right[2][5] = 1
    /\ lcd.mem[2][6] = Prior(2, 6) /\ lcd.mem[2][7] = Prior(2, 7)
    /\ lcd.mem[0][0] # lcd.mem[0][1]

\* the R, G, B bytes of a surface word
RGBOf(w) == <<w.hi % 256, w.lo \div 256, w.lo % 256>>

\* C23: after frame A (luma 235, chroma 128) has been drawn at offset 0 and
\* frame B (luma 16, chroma 128) at offset 400 into the 800 x 480 surface,
\* every pixel of the left 400 x 480 region is (255,255,255) and every pixel
\* of the right one (0,0,0).
C23_WhiteAndBlack ==
    (/\ lcd.at = "done" /\ lcd.fb_w = 800 /\ lcd.fb_h = 480
     /\ lcd.frame.left = FrameA /\ lcd.frame.right = FrameB) =>
        \A r \in 0 .. 479 :
            /\ \A c \in 0 .. 399 : RGBOf(lcd.mem[r][c]) = <<255, 255, 255>>
            /\ \A c \in 400 .. 799 : RGBOf(lcd.mem[r][c]) = <<0, 0, 0>>

\* both calls have returned on the 800 x 480 surface with frames A and B
C23_Witness ==
    /\ lcd.at = "done" /\ lcd.fb_w = 800 /\ lcd.fb_h = 480
    /\ lcd.frame.left = FrameA /\ lcd.frame.right = FrameB
    /\ lcd.hits.left[479][399] = 1 /\ lcd.hits.right[479][799] = 1

\* the name has the extension .jpg
HasExtJpg(name) ==
    /\ Len(name) >= 4
    /\ SubSeq(name, Len(name) - 3, Len(name)) = <<".", "j", "p", "g">>

\* a call of clear_jpg_files has returned without any failed system call
PurgeReturned == dir.at = "ret" /\ ~dir.failed

\* C25: after clear_jpg_files the directory exists, holds no entry with
\* extension .jpg, still holds every earlier entry whose extension is not
\* .jpg, and is empty if it did not exist before.
C25_PurgeExact ==
    (PurgeReturned /\ dir.run = 1) =>
        /\ dir.exists = "dir"
        /\ \A n \in dir.entries : ~HasExtJpg(n)
        /\ \A n \in dir.before.entries : ~HasExtJpg(n) => n \in dir.entries
        /\ dir.before.exists = "absent" => dir.entries = {}

\* C26: a second call leaves what the first call left, and a call on a
\* directory whose entries all lack the extension .jpg leaves their number
\* unchanged.
C26_PurgeIdempotent ==
    /\ (PurgeReturned /\ dir.run = 2) =>
          /\ dir.exists = dir.after1.exists
          /\ dir.entries = dir.after1.entries
    /\ (PurgeReturned /\ \A n \in dir.before.entries : ~HasExtJpg(n)) =>
          Cardinality(dir.entries) = Cardinality(dir.before.entries)

\* C29: when the main loop is at the sleep that ends an iteration, the
\* application holds no buffer of either camera: both buffers of each are
\* queued to the driver.
C29_NothingHeldAtSleep ==
    pc = "sleep" =>
        \A c \in Cams : held[c] = 0 /\ Range(drvq[c]) = BufIdx

\* C28: a step is a step of the main loop or of the listener, never of both
\* (the listener's exit(1) ends both); a listener step leaves the display
\* surface, both buffer pools, the buffer records, the capture counter and
\* the written files unchanged; these change only in steps of the main
\* loop, which leaves the listener's position and event unchanged.
C28_OnlyFlagShared ==
    [][/\ lpc' = lpc \/ pc' = pc \/ pc' = "exited"
       /\ lpc' # lpc =>
            UNCHANGED <<fb, drvq, b, cap, held, photo_idx, files>>
       /\ <<fb, drvq, b, cap, held, photo_idx, files>>' #
              <<fb, drvq, b, cap, held, photo_idx, files>>
            => pc' # pc /\ lpc' = lpc /\ ev' = ev /\ photo_flag' = photo_flag
       /\ (pc' # pc /\ pc' # "exited") => lpc' = lpc /\ ev' = ev]_vars

\* the listener has set the flag while the main loop holds a left buffer
\* between its two dequeues
C28_Witness ==
    /\ pc = "dq2" /\ held[1] = 1 /\ lpc = "read"
    /\ photo_flag = 1 /\ sets = 1

\* the camera the next statement of main() acts on (0: none): a statement
\* of init_camera for camera spc.c, or a dequeue or requeue of the loop
CamOfStep ==
    IF pc = "setup"
    THEN IF spc.at \in {"cam_open", "s_fmt", "reqbufs", "for_test", "querybuf",
                        "mmap", "qbuf", "streamon"}
         THEN spc.c ELSE 0
    ELSE CASE pc \in {"dq1", "q1", "cap_dq1", "cap_q1"} -> 1
           [] pc \in {"dq2", "q2", "cap_dq2", "cap_q2"} -> 2
           [] OTHER -> 0

\* C27: a setup, dequeue or requeue statement on one camera leaves the other
\* camera's device handle, format, buffer table and stream, the driver queue
\* of its buffers, the buffers held from it and its buffer records unchanged.
C27_CamerasSeparate ==
    [][\A c \in Cams :
         CamOfStep = c =>
            LET o == 3 - c
            IN /\ dev'.cam[o] = dev.cam[o]
               /\ drvq'[o] = drvq[o]
               /\ held'[o] = held[o]
               /\ b'[o] = b[o]
               /\ cap'[o] = cap[o]]_vars

\* after startup the left dequeue has taken buffer 0 of the left camera and
\* the right camera still has both buffers queued
C27_Witness ==
    /\ spc.at = "loop" /\ pc = "dq2"
    /\ held = <<1, 0>> /\ drvq[1] = <<1>> /\ drvq[2] = <<0, 1>>
    /\ dev.cam[1] = CamReady /\ dev.cam[2] = CamReady

\* a position in the startup code
Pos(a, c, i) == [at |-> a, c |-> c, i |-> i]

\* init_camera for camera c as the claim orders it: open, format, buffer
\* request, then query, map and queue of buffer 0 and of buffer 1, then
\* stream start
CamOrder(c) ==
    <<Pos("cam_open", c, 0), Pos("s_fmt", c, 0), Pos("reqbufs", c, 0),
      Pos("for_test", c, 0), Pos("querybuf", c, 0), Pos("mmap", c, 0), Pos("qbuf", c, 0),
      Pos("for_test", c, 1), Pos("querybuf", c, 1), Pos("mmap", c, 1), Pos("qbuf", c, 1),
      Pos("for_test", c, 2), Pos("streamon", c, 2)>>

StartupOrder ==
    <<Pos("purge_left", 0, 0), Pos("purge_right", 0, 0), Pos("fb_open", 0, 0),
      Pos("fb_info", 0, 0), Pos("fb_mmap", 0, 0)>>
    \o CamOrder(1) \o CamOrder(2)
    \o <<Pos("thread", 2, 2), Pos("loop", 2, 2)>>

\* C30: startup goes through its statements in the one order: left purge,
\* right purge, display surface, left camera, right camera (each: format,
\* buffer request, query-map-queue per buffer, stream start with both
\* buffers queued), listener thread, main loop; the listener runs, the flag
\* is set and a still image is written only in the main loop, with both
\* folders purged and both cameras streaming.
C30_StartupOrder ==
    /\ [][/\ spc' # spc =>
               \E k \in 1 .. (Len(StartupOrder) - 1) :
                  spc = StartupOrder[k] /\ spc' = StartupOrder[k + 1]
          /\ \A c \in Cams :
               (dev'.cam[c].streaming /\ ~dev.cam[c].streaming) =>
                  /\ drvq[c] = <<0, 1>>
                  /\ dev.cam[c].fmt /\ dev.cam[c].mapped = BufIdx]_vars
    /\ [](\/ /\ lpc = "none" /\ photo_flag = 0 /\ sets = 0 /\ captures = 0
             /\ spc.at \notin {"purge_left", "purge_right"} => files = {}
          \/ /\ spc.at = "loop"
             /\ dev.fb = "mapped"
             /\ \A c \in Cams : dev.cam[c].streaming)

\* startup has completed and the first capture has written the two images
\* of sequence number 0
C30_Witness ==
    /\ spc.at = "loop" /\ captures = 1 /\ sets = 1
    /\ files = {<<1, 0>>, <<2, 0>>}
    /\ \A c \in Cams : dev.cam[c].streaming

\* C31: the listener's open either succeeds, leaving the main loop where it
\* is, or fails and ends the whole process, at whatever statement the main
\* loop is; once the process has exited nothing happens any more; a failed
\* read ends the listener only and leaves the main loop where it is.
C31_OpenFailureExits ==
    /\ [][lpc = "open" /\ lpc' # lpc =>
             \/ lpc' = "read" /\ pc' = pc
             \/ lpc' = "exited" /\ pc' = "exited"]_vars
    /\ [][pc # "exited"]_vars
    /\ [][lpc = "read" /\ lpc' \notin {"read", "handle"} =>
             lpc' = "dead" /\ pc' = pc]_vars
    /\ [](lpc = "exited" => pc = "exited")

\* the process has exited on the failed open while the main loop held the
\* left buffer it had just dequeued
C31_Witness ==
    /\ pc = "exited" /\ lpc = "exited"
    /\ held = <<1, 0>> /\ iterLog = <<"dq1_ok">>

\* main() of the coil program is inside the trigger handling
CoilInTrigger ==
    coil.at \in {"burst", "attempt", "elapsed", "index", "b_low", "a_high",
                 "hold", "a_low", "b_high", "reset"}

\* C32: count is the number of readings above the threshold since the last
\* reading at or below it and since the last trigger (failed reads aside);
\* the trigger handling is entered only with that number at TRIGGER_COUNT;
\* at the top of every loop iteration 0 <= count < TRIGGER_COUNT; the end of
\* a trigger sets count to 0.
C32_TriggerNeedsFive ==
    /\ [](coil.at # "idle" =>
            /\ coil.count = coil.run
            /\ coil.at = "read" => coil.count \in 0 .. (TRIGGER_COUNT - 1)
            /\ CoilInTrigger => coil.run = TRIGGER_COUNT)
    /\ [][coil.triggers' # coil.triggers => coil.count' = 0]_vars

\* the second trigger fires
C32_Witness ==
    /\ coil.at = "burst" /\ coil.triggers = 1
    /\ coil.count = TRIGGER_COUNT

\* C33: in the trigger handling GPIO_B is low once its write to low is done,
\* GPIO_A is high and GPIO_B low during the hold, both are low between the
\* two last writes; GPIO_A and GPIO_B are never both high; at every ADC
\* sampling point GPIO_A is low and GPIO_B is high.
C33_PinSequence ==
    /\ coil.at = "a_high" => coil.B = 0
    /\ coil.at = "hold" => coil.A = 1 /\ coil.B = 0
    /\ coil.at = "b_high" => coil.A = 0 /\ coil.B = 0
    /\ ~(coil.A = 1 /\ coil.B = 1)
    /\ coil.at = "read" => coil.A = 0 /\ coil.B = 1

\* C34: once the folder is emptied, the images in it are exactly those
\* numbered 0 .. g_total_saved - 1, each written once, so g_total_saved is
\* the number of snapshots saved; during a burst saved is the increase of
\* g_total_saved, and so is the value capture_snapshots returns; an attempt
\* either writes the file named by the counter and adds one to it, or leaves
\* the counter and the folder as they are.
C34_SavedCounts ==
    /\ [](coil.at \notin {"idle", "prep"} =>
            /\ coil.files = 0 .. (coil.total - 1)
            /\ ~coil.over
            /\ coil.at \in {"attempt", "elapsed", "index"} =>
                  coil.saved = coil.total - coil.total0
            /\ coil.at \in {"b_low", "returned"} =>
                  coil.ret = coil.total - coil.total0)
    /\ [][coil.at = "attempt" /\ coil.at' # "attempt" =>
             \/ /\ coil.total' = coil.total + 1
                /\ coil.files' = coil.files \cup {coil.total}
                /\ coil.total \notin coil.files
             \/ /\ coil.total' = coil.total
                /\ coil.files' = coil.files]_vars

\* the second burst ends after three attempts of which two saved an image,
\* the first burst having saved one
C34_Witness ==
    /\ coil.at = "b_low" /\ coil.triggers = 1
    /\ coil.attempts = 3 /\ coil.ret = 2
    /\ coil.total0 = 1 /\ coil.files = {0, 1, 2}

\* C35: capture_snapshots reaches its end only after at least one attempt
\* and with the elapsed time at or over the duration; when it has returned,
\* and whenever main() reads the ADC, index.html lists exactly the images
\* 0 .. g_total_saved - 1.
C35_IndexCurrent ==
    /\ coil.at = "index" => coil.attempts >= 1 /\ coil.el >= coil.dur
    /\ coil.at \in {"b_low", "returned"} =>
          /\ coil.attempts >= 1
          /\ coil.index = coil.total
    /\ coil.at = "read" => coil.index = coil.total

\* C36: when http_get_snapshot_save has returned 0 the output file holds
\* the whole body, unchanged: the Content-Length bytes when the header has
\* that line, all the bytes the server sent otherwise, and never more than
\* Content-Length; when it has returned -1 for a failed connection, a failed
\* request or a header longer than the header array, the file was not
\* created.
C36_ZeroMeansSaved ==
    http.at = "done" =>
       /\ http.ret \in {0, -1}
       /\ http.ret = 0 =>
             /\ http.file = (IF http.cl >= 0 THEN http.cl ELSE http.B)
             /\ ~http.nul
             /\ http.lost = 0
       /\ http.ret = -1 /\ http.why \in {"connect", "request", "header"} =>
             http.file = -1

C38_RelaysFollowState ==
    fix.at # "idle" =>
       /\ fix.R_C = fix.T_C
       /\ fix.R_C = 1 <=> fix.current_state = "STATE_CAPTURE_R"

\* the capture is running with both relay pins high
C38_Witness ==
    /\ fix.current_state = "STATE_CAPTURE_R"
    /\ fix.R_C = 1 /\ fix.T_C = 1 /\ fix.since > 0

RECURSIVE SumTo(_, _)
\* f[1] + .. + f[n]
SumTo(f, n) == IF n = 0 THEN 0 ELSE f[n] + SumTo(f, n - 1)

\* the sum of the last n of the samples fed
SumLast(n) ==
    LET len == Len(filt.fed)
    IN  SumTo([k \in 1 .. n |-> filt.fed[len - n + k]], n)

\* the place in fed of the last sample written to buf[k], 0 when none was
LastAt(k) ==
    LET len == Len(filt.fed)
        back == (len - 1 - k) % FILTER_DEPTH
    IN  IF len - back >= 1 THEN len - back ELSE 0

\* C39: after every call of filter_average idx is in 0 .. FILTER_DEPTH - 1
\* and is the number of calls modulo FILTER_DEPTH, sum is the sum of the
\* buffer entries, every entry holds the last sample written to its place (0
\* when there was none), the value returned is sum / FILTER_DEPTH, and from
\* the 16th call on it is the mean of the last 16 samples; a call changes
\* the entry at idx only, which is the oldest.
C39_FilterMean ==
    /\ [](filt.at = "ready" =>
            /\ filt.idx \in 0 .. (FILTER_DEPTH - 1)
            /\ filt.idx = Len(filt.fed) % FILTER_DEPTH
            /\ filt.sum = SumTo(filt.buf, FILTER_DEPTH)
            /\ \A k \in 0 .. (FILTER_DEPTH - 1) :
                  filt.buf[k + 1] =
                     (IF LastAt(k) = 0 THEN 0 ELSE filt.fed[LastAt(k)])
            /\ filt.ret = <<filt.sum, FILTER_DEPTH>>
            /\ Len(filt.fed) >= FILTER_DEPTH =>
                  filt.ret[1] = SumLast(FILTER_DEPTH))
    /\ [][filt.fed' # filt.fed =>
             /\ \A k \in 0 .. (FILTER_DEPTH - 1) :
                   k # filt.idx => filt.buf'[k + 1] = filt.buf[k + 1]
             /\ filt.buf'[filt.idx + 1] = filt.fed'[Len(filt.fed')]
             /\ \A k \in 0 .. (FILTER_DEPTH - 1) :
                   LastAt(filt.idx) <= LastAt(k)]_vars

\* the 18th call has returned: the two oldest samples, both 5, have been
\* overwritten by -3 and the mean is that of the last 16 samples
C39_Witness ==
    /\ filt.at = "ready" /\ Len(filt.fed) = FILTER_DEPTH + 2
    /\ filt.fed[1] = 5 /\ filt.fed[2] = 5
    /\ filt.buf[1] = -3 /\ filt.buf[2] = -3
    /\ filt.idx = 2
    /\ filt.ret[1] = SumLast(FILTER_DEPTH)

====
